---- MODULE Spec2Model ----
(***************************************************************************)
(* Workload lifecycle orchestrator of AI Studio / AI Lab:                  *)
(*   - PlayGroundManager  (one container per model, query sessions)        *)
(*   - ApplicationManager (one pod per (recipe, model), pull pipeline,     *)
(*     health reconciliation)                                              *)
(* JavaScript runs one handler at a time up to its next await, so every    *)
(* action below is one synchronous segment of a handler: from a call or    *)
(* the settlement of an awaited promise up to the next await, return or    *)
(* throw.                                                                  *)
(***************************************************************************)
EXTENDS Integers, Sequences, FiniteSets, TLC

\* ------------------------------------------------------------------ bounds
\* startPlayground invocations that get past the state check
MaxStarts == 2
\* probe attempts that fit into STARTING_TIME_MAX
MaxProbes == 2
\* stopPlayground calls accepted over a run
MaxStops == 2
\* askPlayground calls that allocate a query id
MaxQueries == 2
\* chunks one completion stream can deliver
MaxChunks == 2
\* the lifecycle budget of the runs that exercise the query sessions
QueryStarts == 1
QueryProbes == 1
QueryStops == 1
\* lifecycle operations (pull, stop, remove) requested over a run
MaxOps == 2
\* passes of the recurring health check
MaxTicks == 2
\* pods removed or exited behind the manager's back
MaxExternals == 1
\* inspections that fit into MAX_ATTEMPTS of waitContainerIsRunning
MaxAttempts == 2
\* the operations of the runs that exercise the health check
HealthOps == 1
PollTicks == 1
\* pods and playground containers the engine holds when the managers start
MaxPods == 2
MaxContainers == 2

ModelIds == {"m1", "m2"}
FreePorts == {80, 81}
EngineId == "podman"

StartIds == 1..MaxStarts
ContainerIds == 1..(MaxStarts + MaxContainers)

VARIABLES
  playgrounds,    \* PlayGroundManager.playgrounds : modelId -> PlaygroundState
  queries,        \* PlayGroundManager.queries : query id -> QueryState
  queryIdCounter, \* PlayGroundManager.queryIdCounter
  starts,         \* the startPlayground invocations and where each one stands
  stops,          \* stopContainer calls of stopPlayground not settled yet
  asks,           \* askPlayground invocations awaiting or reading a stream
  containers,     \* the engine's containers : container id -> state and labels
  events,         \* lifecycle events the engine emitted and has not delivered
  subs,           \* ContainerRegistry subscriptions made by startPlayground
  stopsIssued,    \* number of stopPlayground calls accepted so far
  budget,         \* how many calls of each kind the run explores
  applications,   \* ApplicationManager.#applications : {recipeId, modelId} -> ApplicationState
  protectTasks,   \* ApplicationManager.protectTasks : set of pod ids
  tasks,          \* the task registry : task id -> Task
  pods,           \* the engine's pods : pod id -> PodInfo
  podCount,       \* number of pods the engine has created
  podEvents,      \* pod start / remove events emitted and not handled yet
  ops,            \* pull / start / stop / remove / restart invocations in flight
  opCount,        \* number of lifecycle operations requested so far
  externals,      \* number of changes made to the pods behind the manager's back
  ticker,         \* the recurring health check started by init()
  adoption,       \* the startup adoption of init() and adoptRunningPlaygrounds()
  inference,      \* the perform() call of the LlamaCppPython provider in flight
  last            \* what the latest handler segment did: its outcome and engine calls

pgVars == <<playgrounds, queries, queryIdCounter, starts, stops, asks,
            containers, events, subs, stopsIssued>>

appVars == <<applications, protectTasks, tasks, pods, podCount, podEvents, ops, opCount,
             externals, ticker>>

vars == <<pgVars, appVars, adoption, inference, budget, last>>

\* ------------------------------------------------------------ data shapes
\* PlaygroundState.container === undefined
NoContainer == [containerId |-> 0, engineId |-> "", port |-> 0]

Has(m) == m \in DOMAIN playgrounds

\* this.playgrounds.get(modelId) || {}
GetOrEmpty(m) ==
  IF Has(m) THEN playgrounds[m]
  ELSE [modelId |-> m, status |-> "undefined", container |-> NoContainer]

\* Map.set
MapSet(map, k, v) == [x \in (DOMAIN map) \cup {k} |-> IF x = k THEN v ELSE map[x]]

\* setPlaygroundStatus: the stored state (container included) with a new status
SetPlaygroundStatus(pg, m, status) ==
  MapSet(pg, m,
         [modelId |-> m,
          status |-> status,
          container |-> IF m \in DOMAIN pg THEN pg[m].container ELSE NoContainer])

\* the state written by the lifecycle subscription: {status: 'none', modelId}
NoneState(m) == [modelId |-> m, status |-> "none", container |-> NoContainer]

RunningState(m, cid, port) ==
  [modelId |-> m, status |-> "running",
   container |-> [containerId |-> cid, engineId |-> EngineId, port |-> port]]

\* the switch at the head of startPlayground: the error it throws, or "" to go on
StartConflictIgnoringStopping(pg, m) ==
  IF m \notin DOMAIN pg THEN ""
  ELSE CASE pg[m].status = "running" -> "playground is already running"
         [] pg[m].status = "starting" -> "playground is transitioning"
         [] OTHER -> ""

StartConflict(pg, m) ==
  IF m \notin DOMAIN pg THEN ""
  ELSE CASE pg[m].status = "running" -> "playground is already running"
         [] pg[m].status \in {"starting", "stopping"} -> "playground is transitioning"
         [] OTHER -> ""

IdleStart == [pc |-> "idle", modelId |-> "", port |-> 0, cid |-> 0,
              contacted |-> FALSE, elapsed |-> 0, timedOut |-> FALSE]

\* what a handler segment did: the operation, its argument, its outcome ("await",
\* "returned" or the error thrown) and the engine calls it issued
Call(op, arg, out, calls) == [op |-> op, arg |-> arg, out |-> out, calls |-> calls]

\* a segment that is not the entry of a public operation
Internal == Call("internal", "", "", {})

\* --------------------------------------------------------------- the engine
NextContainerId == Cardinality(DOMAIN containers) + 1

\* `${freePort}` and parseInt(label, 10) over decimal digit sequences
Digits == <<"0", "1", "2", "3", "4", "5", "6", "7", "8", "9">>

DigitValue(ch) == (CHOOSE d \in 1..10 : Digits[d] = ch) - 1

IsDigit(ch) == \E d \in 1..10 : Digits[d] = ch

RECURSIVE ToDigits(_)
ToDigits(n) == IF n < 10 THEN <<Digits[n + 1]>>
               ELSE Append(ToDigits(n \div 10), Digits[(n % 10) + 1])

\* the container a started playground is served by
NewContainer(m, port) ==
  [State |-> "running", hasModelId |-> TRUE, modelId |-> m,
   hasPort |-> TRUE, portLabel |-> ToDigits(port), external |-> FALSE]

\* the engine stops a container: AutoRemove makes it die, clean up and go
Stopped(cs, c) == [cs EXCEPT ![c].State = "removed"]

DeathEvents == <<"die", "cleanup", "remove">>

Emit(ev, c, what) == [ev EXCEPT ![c] = ev[c] \o what]

\* ------------------------------------------------------- startPlayground
FreeStart(i) ==
  /\ i <= budget.starts
  /\ starts[i].pc = "idle"
  /\ \A j \in StartIds : j < i => starts[j].pc # "idle"

Threw(i, why) == [starts EXCEPT ![i].pc = "threw", ![i].contacted = FALSE,
                                ![i].elapsed = 0, ![i].port = 0]

\* startPlayground up to its first await (selectImage -> listImages)
StartPlaygroundCall(m) ==
  LET err == StartConflict(playgrounds, m) IN
  IF err # ""
  THEN /\ last' = Call("startPlayground", m, err, {})
       /\ UNCHANGED <<playgrounds, queries, queryIdCounter, starts, stops, asks,
                      containers, events, subs, stopsIssued, budget, inference, appVars, adoption>>
  ELSE \E connection \in BOOLEAN :
       IF ~connection
       THEN /\ playgrounds' = SetPlaygroundStatus(
                                 SetPlaygroundStatus(playgrounds, m, "starting"),
                                 m, "error")
            /\ last' = Call("startPlayground", m,
                            "Unable to find an engine to start playground", {})
            /\ UNCHANGED <<queries, queryIdCounter, starts, stops, asks,
                           containers, events, subs, stopsIssued, budget, inference, appVars, adoption>>
       ELSE \E i \in StartIds :
            /\ FreeStart(i)
            /\ playgrounds' = SetPlaygroundStatus(playgrounds, m, "starting")
            /\ starts' = [starts EXCEPT ![i] =
                            [IdleStart EXCEPT !.pc = "selectImage", !.modelId = m]]
            /\ last' = Call("startPlayground", m, "await", {"listImages"})
            /\ UNCHANGED <<queries, queryIdCounter, stops, asks,
                           containers, events, subs, stopsIssued, budget, inference, appVars, adoption>>

\* let image = await this.selectImage(PLAYGROUND_IMAGE)
SelectImageDone(i) ==
  /\ starts[i].pc = "selectImage"
  /\ \E r \in {"found", "missing", "rejected"} :
       /\ starts' = CASE r = "found" -> [starts EXCEPT ![i].pc = "getFreePort"]
                      [] r = "missing" -> [starts EXCEPT ![i].pc = "pullImage"]
                      [] OTHER -> Threw(i, "listImages")
       /\ last' = Internal
  /\ UNCHANGED <<playgrounds, queries, queryIdCounter, stops, asks,
                 containers, events, subs, stopsIssued, budget, inference, appVars, adoption>>

\* await containerEngine.pullImage(...)
PullImageDone(i) ==
  /\ starts[i].pc = "pullImage"
  /\ \E ok \in BOOLEAN :
       /\ starts' = IF ok THEN [starts EXCEPT ![i].pc = "selectImage2"]
                     ELSE Threw(i, "pullImage")
       /\ last' = Internal
  /\ UNCHANGED <<playgrounds, queries, queryIdCounter, stops, asks,
                 containers, events, subs, stopsIssued, budget, inference, appVars, adoption>>

\* image = await this.selectImage(PLAYGROUND_IMAGE), after the pull
SelectImage2Done(i) ==
  /\ starts[i].pc = "selectImage2"
  /\ \E r \in {"found", "missing", "rejected"} :
       /\ starts' = IF r = "found" THEN [starts EXCEPT ![i].pc = "getFreePort"]
                     ELSE Threw(i, r)
       /\ playgrounds' = IF r = "missing"
                          THEN SetPlaygroundStatus(playgrounds, starts[i].modelId, "error")
                          ELSE playgrounds
       /\ last' = Internal
  /\ UNCHANGED <<queries, queryIdCounter, stops, asks,
                 containers, events, subs, stopsIssued, budget, inference, appVars, adoption>>

\* const freePort = await getFreePort(); then createContainer is issued
GetFreePortDone(i) ==
  /\ starts[i].pc = "getFreePort"
  /\ \E p \in budget.ports :
       starts' = [starts EXCEPT ![i].pc = "createContainer", ![i].port = p]
  /\ last' = Internal
  /\ UNCHANGED <<playgrounds, queries, queryIdCounter, stops, asks,
                 containers, events, subs, stopsIssued, budget, inference, appVars, adoption>>

\* the while loop's condition, then what follows the loop
Probing(pg, st) ==
  /\ st.elapsed < budget.probes
  /\ ~st.contacted
  /\ pg[st.modelId].status = "starting"

\* from the loop's condition to the next await, return or throw
AfterProbe(i, st, cs, ev, sb) ==
  IF Probing(playgrounds, st)
  THEN /\ starts' = [starts EXCEPT ![i] = [st EXCEPT !.pc = "fetch"]]
       /\ last' = Internal
       /\ playgrounds' = playgrounds
       /\ containers' = cs /\ events' = ev /\ subs' = sb
  ELSE IF ~st.contacted
  THEN /\ starts' = [starts EXCEPT ![i] =
                       [st EXCEPT !.pc = "stopContainer",
                                  !.timedOut = (st.elapsed >= budget.probes)]]
       /\ last' = Internal
       /\ playgrounds' = playgrounds
       /\ containers' = cs /\ events' = ev /\ subs' = sb
  ELSE /\ starts' = [starts EXCEPT ![i] =
                       [st EXCEPT !.pc = "returned", !.elapsed = 0]]
       /\ playgrounds' = MapSet(playgrounds, st.modelId,
                                RunningState(st.modelId, st.cid, st.port))
       /\ last' = Internal
       /\ containers' = cs /\ events' = ev /\ subs' = sb

\* createContainer settled: subscribe to the container, enter the probe loop
CreateContainerDone(i) ==
  /\ starts[i].pc = "createContainer"
  /\ \/ LET c == NextContainerId
             m == starts[i].modelId
         IN AfterProbe(i, [starts[i] EXCEPT !.cid = c],
                       MapSet(containers, c, NewContainer(m, starts[i].port)),
                       MapSet(events, c, <<"start">>),
                       subs \cup {[cid |-> c, modelId |-> m]})
     \/ /\ starts' = Threw(i, "createContainer")
        /\ last' = Internal
        /\ UNCHANGED <<playgrounds, containers, events, subs>>
  /\ UNCHANGED <<queries, queryIdCounter, stops, asks, stopsIssued, budget, inference, appVars, adoption>>

\* const response = await fetch(...): one probe, then the loop's condition again
FetchDone(i) ==
  /\ starts[i].pc = "fetch"
  /\ \E r \in {"ok", "not ok", "throws"} :
       AfterProbe(i, [starts[i] EXCEPT !.contacted = (r = "ok"),
                                       !.elapsed = starts[i].elapsed + 1],
                  containers, events, subs)
  /\ UNCHANGED <<queries, queryIdCounter, stops, asks, stopsIssued, budget, inference, appVars, adoption>>

\* await containerEngine.stopContainer(...) of the failed start settled; then throw
StartStopContainerDone(i) ==
  /\ starts[i].pc = "stopContainer"
  /\ LET c == starts[i].cid IN
     \/ /\ containers[c].State = "running"
        /\ containers' = Stopped(containers, c)
        /\ events' = Emit(events, c, DeathEvents)
        /\ last' = Internal
     \/ /\ last' = Internal
        /\ UNCHANGED <<containers, events>>
  /\ starts' = [starts EXCEPT ![i].pc = "threw", ![i].elapsed = 0]
  /\ UNCHANGED <<playgrounds, queries, queryIdCounter, stops, asks, subs, stopsIssued, budget, inference, appVars, adoption>>

\* ------------------------------------------------- lifecycle subscription
LifecycleEnds == {"remove", "die", "cleanup"}

\* the same delivery with callbacks that never dispose their subscription
DeliverEventKeepingSubscription(c) ==
  /\ c \in DOMAIN events
  /\ events[c] # <<>>
  /\ LET status == Head(events[c])
         listeners == {s \in subs : s.cid = c}
         hit == IF status \in LifecycleEnds THEN listeners ELSE {}
         demoted == {s.modelId : s \in hit}
     IN /\ playgrounds' = [m \in DOMAIN playgrounds \cup demoted |->
                            IF m \in demoted THEN NoneState(m) ELSE playgrounds[m]]
        /\ subs' = subs
        /\ events' = [events EXCEPT ![c] = Tail(events[c])]
        /\ last' = Internal
  /\ UNCHANGED <<queries, queryIdCounter, starts, stops, asks, containers, stopsIssued, budget, inference, appVars, adoption>>

\* the engine delivers the oldest undelivered event of container c to the callback
\* subscribed to c; events of a container nobody is subscribed to reach no callback
DeliverEvent(c) ==
  /\ c \in DOMAIN events
  /\ events[c] # <<>>
  /\ LET status == Head(events[c])
         listeners == {s \in subs : s.cid = c}
         hit == IF status \in LifecycleEnds THEN listeners ELSE {}
         demoted == {s.modelId : s \in hit}
     IN /\ playgrounds' = [m \in DOMAIN playgrounds \cup demoted |->
                            IF m \in demoted THEN NoneState(m) ELSE playgrounds[m]]
        /\ subs' = subs \ hit
        /\ events' = [events EXCEPT ![c] = IF listeners = hit THEN <<>>
                                           ELSE Tail(events[c])]
        /\ last' = Internal
  /\ UNCHANGED <<queries, queryIdCounter, starts, stops, asks, containers, stopsIssued, budget, inference, appVars, adoption>>

\* a running container dies or is removed by someone else
ContainerDies(c) ==
  /\ c \in DOMAIN containers
  /\ containers[c].State = "running"
  /\ containers' = Stopped(containers, c)
  /\ events' = Emit(events, c, DeathEvents)
  /\ last' = Internal
  /\ UNCHANGED <<playgrounds, queries, queryIdCounter, starts, stops, asks, subs,
                 stopsIssued, budget, inference, appVars, adoption>>

\* ---------------------------------------------------------- stopPlayground
RemoveAt(seq, k) == [j \in 1..(Len(seq) - 1) |-> IF j < k THEN seq[j] ELSE seq[j + 1]]

\* stopPlayground: throws without a container descriptor; else marks the playground
\* stopping, issues stopContainer and returns without awaiting it
StopPlaygroundCall(m) ==
  LET state == GetOrEmpty(m) IN
  IF state.container = NoContainer
  THEN /\ last' = Call("stopPlayground", m, "model is not running", {})
       /\ UNCHANGED <<playgrounds, queries, queryIdCounter, starts, stops, asks,
                      containers, events, subs, stopsIssued, budget, inference, appVars, adoption>>
  ELSE /\ stopsIssued < budget.stops
       /\ playgrounds' = SetPlaygroundStatus(playgrounds, m, "stopping")
       /\ stops' = Append(stops, [modelId |-> m, cid |-> state.container.containerId])
       /\ stopsIssued' = stopsIssued + 1
       /\ last' = Call("stopPlayground", m, "returned", {"stopContainer"})
       /\ UNCHANGED <<queries, queryIdCounter, starts, asks, containers, events, subs,
                      budget, inference, appVars, adoption>>

\* .then(...): the engine stopped the container
StopContainerResolved(k) ==
  /\ k \in 1..Len(stops)
  /\ stops[k].cid \in DOMAIN containers
  /\ containers[stops[k].cid].State = "running"
  /\ containers' = Stopped(containers, stops[k].cid)
  /\ events' = Emit(events, stops[k].cid, DeathEvents)
  /\ playgrounds' = SetPlaygroundStatus(playgrounds, stops[k].modelId, "stopped")
  /\ stops' = RemoveAt(stops, k)
  /\ last' = Internal
  /\ UNCHANGED <<queries, queryIdCounter, starts, asks, subs, stopsIssued, budget, inference, appVars, adoption>>

\* a stop whose failure is dropped: no .catch handler
StopContainerRejectedUnhandled(k) ==
  /\ k \in 1..Len(stops)
  /\ stops' = RemoveAt(stops, k)
  /\ last' = Internal
  /\ UNCHANGED <<playgrounds, queries, queryIdCounter, starts, asks, containers, events,
                 subs, stopsIssued, budget, inference, appVars, adoption>>

\* .catch(...): the engine's stop failed
StopContainerRejected(k) ==
  /\ k \in 1..Len(stops)
  /\ playgrounds' = SetPlaygroundStatus(playgrounds, stops[k].modelId, "error")
  /\ stops' = RemoveAt(stops, k)
  /\ last' = Internal
  /\ UNCHANGED <<queries, queryIdCounter, starts, asks, containers, events, subs,
                 stopsIssued, budget, inference, appVars, adoption>>

\* ----------------------------------------------------------- askPlayground
Prompts == {"hello"}

NoResponse == <<>>

\* askPlayground taking its id without advancing the counter
AskPlaygroundCallReusingId(m, prompt) ==
  LET state == GetOrEmpty(m) IN
  IF state.container = NoContainer
  THEN /\ last' = Call("askPlayground", m, "model is not running", {})
       /\ UNCHANGED <<playgrounds, queries, queryIdCounter, starts, stops, asks,
                      containers, events, subs, stopsIssued, budget, inference, appVars, adoption>>
  ELSE /\ Len(asks) < budget.queries
       /\ asks' = Append(asks, [pc |-> "create", id |-> queryIdCounter + 1,
                                modelId |-> m, prompt |-> prompt, chunks |-> 0])
       /\ last' = Call("askPlayground", m, "await", {})
       /\ UNCHANGED <<playgrounds, queries, queryIdCounter, starts, stops, containers, events,
                      subs, stopsIssued, budget, inference, appVars, adoption>>

\* askPlayground up to its await of completions.create
AskPlaygroundCall(m, prompt) ==
  LET state == GetOrEmpty(m) IN
  IF state.container = NoContainer
  THEN /\ last' = Call("askPlayground", m, "model is not running", {})
       /\ UNCHANGED <<playgrounds, queries, queryIdCounter, starts, stops, asks,
                      containers, events, subs, stopsIssued, budget, inference, appVars, adoption>>
  ELSE /\ queryIdCounter < budget.queries
       /\ queryIdCounter' = queryIdCounter + 1
       /\ asks' = Append(asks, [pc |-> "create", id |-> queryIdCounter + 1,
                                modelId |-> m, prompt |-> prompt, chunks |-> 0])
       /\ last' = Call("askPlayground", m, "await", {})
       /\ UNCHANGED <<playgrounds, queries, starts, stops, containers, events, subs,
                      stopsIssued, budget, inference, appVars, adoption>>

\* completions.create settled: the session is stored and the id returned, or the
\* call throws
AskCreateDone(k) ==
  /\ k \in 1..Len(asks)
  /\ asks[k].pc = "create"
  /\ \/ /\ queries' = MapSet(queries, asks[k].id,
                              [id |-> asks[k].id, modelId |-> asks[k].modelId,
                               prompt |-> asks[k].prompt, response |-> NoResponse])
        /\ asks' = [asks EXCEPT ![k].pc = "stream"]
        /\ last' = Call("internal", "", "", {"sendQueriesState"})
     \/ /\ asks' = RemoveAt(asks, k)
        /\ last' = Internal
        /\ UNCHANGED queries
  /\ UNCHANGED <<playgrounds, queryIdCounter, starts, stops, containers, events, subs,
                 stopsIssued, budget, inference, appVars, adoption>>

\* a chunk loop that keeps only the chunk it has just received
AskChunkReplacing(k) ==
  /\ k \in 1..Len(asks)
  /\ asks[k].pc = "stream"
  /\ asks[k].chunks < budget.chunks
  /\ queries' = [queries EXCEPT ![asks[k].id].response = <<asks[k].chunks + 1>>]
  /\ asks' = [asks EXCEPT ![k].chunks = @ + 1]
  /\ last' = Call("internal", "", "", {"sendQueriesState"})
  /\ UNCHANGED <<playgrounds, queryIdCounter, starts, stops, containers, events, subs,
                 stopsIssued, budget, inference, appVars, adoption>>

\* for await (const chunk of response): one chunk is appended to the session
AskChunk(k) ==
  /\ k \in 1..Len(asks)
  /\ asks[k].pc = "stream"
  /\ asks[k].chunks < budget.chunks
  /\ queries' = [queries EXCEPT ![asks[k].id].response = Append(@, asks[k].chunks + 1)]
  /\ asks' = [asks EXCEPT ![k].chunks = @ + 1]
  /\ last' = Call("internal", "", "", {"sendQueriesState"})
  /\ UNCHANGED <<playgrounds, queryIdCounter, starts, stops, containers, events, subs,
                 stopsIssued, budget, inference, appVars, adoption>>

\* a stream whose end or failure takes the session out of the query set
AskStreamOverDroppingSession(k) ==
  /\ k \in 1..Len(asks)
  /\ asks[k].pc = "stream"
  /\ last' = Internal
  /\ asks' = RemoveAt(asks, k)
  /\ queries' = [id \in DOMAIN queries \ {asks[k].id} |-> queries[id]]
  /\ UNCHANGED <<playgrounds, queryIdCounter, starts, stops, containers,
                 events, subs, stopsIssued, budget, inference, appVars, adoption>>

\* the stream ends, or fails and the failure is logged
AskStreamOver(k) ==
  /\ k \in 1..Len(asks)
  /\ asks[k].pc = "stream"
  /\ last' = Internal
  /\ asks' = RemoveAt(asks, k)
  /\ UNCHANGED <<playgrounds, queries, queryIdCounter, starts, stops, containers,
                 events, subs, stopsIssued, budget, inference, appVars, adoption>>


\* ===================================================== ApplicationManager
LABEL_MODEL_ID == "ai-lab-model-id"
LABEL_MODEL_PORTS == "ai-lab-model-ports"
LABEL_RECIPE_ID == "ai-lab-recipe-id"
LABEL_APP_PORTS == "ai-lab-app-ports"

PodIds == 1..(MaxPods + MaxOps)

\* a value that is undefined in the code
Undefined == "undefined"

\* ---------------------------------------------------- labels and port lists
\* labels[key], undefined when the key is absent
Label(labels, key) == IF key \in DOMAIN labels THEN labels[key] ELSE Undefined

\* every requested label is present with the requested value
LabelsMatch(labels, requested) ==
  \A k \in DOMAIN requested : k \in DOMAIN labels /\ labels[k] = requested[k]

\* parseInt(chars, 10): the value of the leading digits, NaN (-1) without any
RECURSIVE ParseIntFrom(_, _, _)
ParseIntFrom(chars, k, acc) ==
  IF k > Len(chars) \/ ~IsDigit(chars[k]) THEN acc
  ELSE ParseIntFrom(chars, k + 1, acc * 10 + DigitValue(chars[k]))

NaN == 0 - 1

\* find(...)?.host_port of a port without mapping
UndefinedPort == 0 - 2

ParseInt(chars) ==
  IF chars = <<>> \/ ~IsDigit(chars[1]) THEN NaN ELSE ParseIntFrom(chars, 1, 0)

\* `${n}`
NumberToString(n) == IF n < 0 THEN <<"N", "a", "N">> ELSE ToDigits(n)

\* Array.join(','): an undefined entry is joined as the empty string
RECURSIVE JoinPorts(_)
JoinPorts(ports) ==
  IF ports = <<>> THEN <<>>
  ELSE LET head == IF ports[1] = UndefinedPort THEN <<>> ELSE NumberToString(ports[1])
       IN IF Len(ports) = 1 THEN head ELSE head \o <<",">> \o JoinPorts(Tail(ports))

\* String.split(','): the pieces between the commas, one piece for the empty string
RECURSIVE SplitFrom(_, _, _)
SplitFrom(chars, k, piece) ==
  IF k > Len(chars) THEN <<piece>>
  ELSE IF chars[k] = "," THEN <<piece>> \o SplitFrom(chars, k + 1, <<>>)
  ELSE SplitFrom(chars, k + 1, Append(piece, chars[k]))

Split(chars) == SplitFrom(chars, 1, <<>>)

\* parseInt of every piece, the NaN ones filtered out
RECURSIVE ParsedPorts(_)
ParsedPorts(pieces) ==
  IF pieces = <<>> THEN <<>>
  ELSE LET port == ParseInt(pieces[1])
       IN IF port = NaN THEN ParsedPorts(Tail(pieces))
          ELSE <<port>> \o ParsedPorts(Tail(pieces))

\* getPortsFromLabel(labels, key): no label, no ports; malformed entries are skipped
GetPortsFromLabel(labels, key) ==
  IF key \notin DOMAIN labels THEN <<>> ELSE ParsedPorts(Split(labels[key]))

\* ------------------------------------------------------------ task registry
\* String(err) and the task messages are sequences of words
NoError == <<>>

NoTask == [id |-> 0, name |-> "", state |-> "", error |-> NoError, labels |-> <<>>]

\* taskRegistry.createTask(name, state, labels): the registry with the new task
CreateTask(ts, name, state, labels) ==
  [counter |-> ts.counter + 1,
   all |-> MapSet(ts.all, ts.counter + 1,
                  [id |-> ts.counter + 1, name |-> name, state |-> state,
                   error |-> NoError, labels |-> labels])]

\* the task object createTask has just returned
Created(ts) == ts.all[ts.counter]

\* taskRegistry.updateTask(task): the task is stored; one that carries an error text
\* is stored as failed, which the catch blocks that set only task.error rely on
UpdateTask(ts, task) ==
  [ts EXCEPT !.all = MapSet(@, task.id,
                            IF task.error # NoError THEN [task EXCEPT !.state = "error"]
                            ELSE task)]

\* taskRegistry.deleteByLabels(labels): every task bearing all the labels goes
DeleteByLabels(ts, labels) ==
  [ts EXCEPT !.all = [id \in {t \in DOMAIN @ : ~LabelsMatch(@[t].labels, labels)} |-> @[id]]]

KeyLabels(r, m) == ("recipe-id" :> r) @@ ("model-id" :> m)

\* ------------------------------------------------------------ the pod engine
NoPod == [Id |-> 0, Status |-> "", Labels |-> <<>>, Containers |-> <<>>]

RECURSIVE SortedIds(_)
SortedIds(ids) ==
  IF ids = {} THEN <<>>
  ELSE LET least == CHOOSE i \in ids : \A j \in ids : i <= j
       IN <<least>> \o SortedIds(ids \ {least})

\* podManager.getPodsWithLabels(keys): the pods bearing every label key, by id
PodsWithLabels(keys) ==
  LET ids == SortedIds({i \in DOMAIN pods : keys \subseteq DOMAIN pods[i].Labels})
  IN [k \in 1..Len(ids) |-> pods[ids[k]]]

\* podManager.findPodByLabelsValues(requested): the first pod that matches, if any
FindPodByLabelsValues(requested) ==
  LET ids == {i \in DOMAIN pods : LabelsMatch(pods[i].Labels, requested)}
  IN IF ids = {} THEN NoPod ELSE pods[CHOOSE i \in ids : \A j \in ids : i <= j]

\* hasApplicationPod: the object literal's keys are the words LABEL_RECIPE_ID and
\* LABEL_MODEL_ID themselves, not the constants' values
HasApplicationPod(r, m) ==
  FindPodByLabelsValues(("LABEL_RECIPE_ID" :> r) @@ ("LABEL_MODEL_ID" :> m)) # NoPod

\* findPod: computed keys, the identity labels
FindPod(r, m) == FindPodByLabelsValues((LABEL_RECIPE_ID :> r) @@ (LABEL_MODEL_ID :> m))

\* ------------------------------------------------------ application registry
AppKey(r, m) == <<r, m>>

PodKey(pod) == AppKey(Label(pod.Labels, LABEL_RECIPE_ID), Label(pod.Labels, LABEL_MODEL_ID))

\* the entry adoptPod builds from a pod's labels
AdoptedState(pod) ==
  [recipeId |-> Label(pod.Labels, LABEL_RECIPE_ID),
   modelId |-> Label(pod.Labels, LABEL_MODEL_ID),
   pod |-> pod,
   appPorts |-> GetPortsFromLabel(pod.Labels, LABEL_APP_PORTS),
   modelPorts |-> GetPortsFromLabel(pod.Labels, LABEL_MODEL_PORTS),
   health |-> "starting"]

\* adoptPod: a pod with both identity labels whose key is not registered is added
AdoptPod(apps, pod) ==
  LET recipeId == Label(pod.Labels, LABEL_RECIPE_ID)
      modelId == Label(pod.Labels, LABEL_MODEL_ID)
  IN IF recipeId \in {Undefined, ""} \/ modelId \in {Undefined, ""} THEN apps
     ELSE IF AppKey(recipeId, modelId) \in DOMAIN apps THEN apps
     ELSE MapSet(apps, AppKey(recipeId, modelId), AdoptedState(pod))

\* pods.forEach(pod => this.adoptPod(pod))
RECURSIVE AdoptAll(_, _)
AdoptAll(apps, listed) ==
  IF listed = <<>> THEN apps ELSE AdoptAll(AdoptPod(apps, listed[1]), Tail(listed))

MapDelete(map, k) == [x \in (DOMAIN map) \ {k} |-> map[x]]

\* forgetPodById(podId): the registry, the tasks and the protect set afterwards
ForgetPodById(apps, ts, protect, podId) ==
  LET found == {k \in DOMAIN apps : apps[k].pod.Id = podId} IN
  IF found = {} THEN [apps |-> apps, tasks |-> ts, protect |-> protect]
  ELSE LET app == apps[CHOOSE k \in found : TRUE]
           recipeId == Label(app.pod.Labels, LABEL_RECIPE_ID)
           modelId == Label(app.pod.Labels, LABEL_MODEL_ID)
       IN IF recipeId \in {Undefined, ""} \/ modelId \in {Undefined, ""}
               \/ AppKey(recipeId, modelId) \notin DOMAIN apps
          THEN [apps |-> apps, tasks |-> ts, protect |-> protect]
          ELSE [apps |-> MapDelete(apps, AppKey(recipeId, modelId)),
                tasks |-> IF podId \in protect THEN ts
                          ELSE CreateTask(ts, "AI App stopped manually", "success",
                                          KeyLabels(recipeId, modelId)),
                protect |-> protect \ {podId}]

\* --------------------------------------------------------- checkPodsHealth
\* one pass: the listed pods, the one whose health is awaited, the changes flag
NoPass == [pc |-> "off", snapshot |-> <<>>, idx |-> 0, changes |-> FALSE]

\* the for loop up to its next await: unregistered pods are skipped, and the pass
\* is finished when the list is exhausted
RECURSIVE AdvancePass(_, _)
AdvancePass(pass, apps) ==
  IF pass.idx > Len(pass.snapshot) THEN [pass EXCEPT !.pc = "finished"]
  ELSE IF PodKey(pass.snapshot[pass.idx]) \notin DOMAIN apps
       THEN AdvancePass([pass EXCEPT !.idx = @ + 1], apps)
       ELSE [pass EXCEPT !.pc = "getHealth"]

\* getPodsWithLabels resolved with the listed pods
PassListed(listed, apps) ==
  AdvancePass([pc |-> "list", snapshot |-> listed, idx |-> 1, changes |-> FALSE], apps)

\* the registry entry after the two comparisons of the loop body
Reconciled(state, pod, podHealth) ==
  LET afterHealth == IF state.health # podHealth
                     THEN [state EXCEPT !.health = podHealth, !.pod = pod]
                     ELSE state
  IN IF pod.Status # afterHealth.pod.Status THEN [afterHealth EXCEPT !.pod = pod]
     ELSE afterHealth

Differs(state, pod, podHealth) ==
  state.health # podHealth \/ pod.Status # state.pod.Status

\* a pass that registers the awaited pod when its key was forgotten meanwhile
HealthSettledRegistering(pass, apps, podHealth) ==
  LET pod == pass.snapshot[pass.idx]
      key == PodKey(pod)
      known == IF key \in DOMAIN apps THEN apps ELSE AdoptPod(apps, pod)
      updated == MapSet(known, key, Reconciled(known[key], pod, podHealth))
  IN [pass |-> AdvancePass([pass EXCEPT !.idx = @ + 1,
                                        !.changes = @ \/ Differs(known[key], pod, podHealth)],
                           updated),
      apps |-> updated]

\* getHealth resolved for the awaited pod: the pass and the registry afterwards;
\* the entry read after the await is undefined when the key was forgotten meanwhile
HealthSettled(pass, apps, podHealth) ==
  LET pod == pass.snapshot[pass.idx]
      key == PodKey(pod)
  IN IF key \notin DOMAIN apps
     THEN [pass |-> [pass EXCEPT !.pc = "threw"], apps |-> apps]
     ELSE LET updated == MapSet(apps, key, Reconciled(apps[key], pod, podHealth))
          IN [pass |-> AdvancePass([pass EXCEPT !.idx = @ + 1,
                                                !.changes = @ \/ Differs(apps[key], pod, podHealth)],
                                   updated),
              apps |-> updated]

\* the ids of the pods a pass listed
Observed(pass) == {pass.snapshot[k].Id : k \in 1..Len(pass.snapshot)}

\* what the end of a pass looked like: whether it had changed an entry, whether it
\* notified the observers, and the pods it had listed
PassEnd(pass) ==
  Call("checkPodsHealth",
       IF pass.changes THEN "changed" ELSE "unchanged",
       IF pass.pc # "finished" THEN pass.pc ELSE IF pass.changes THEN "notified" ELSE "silent",
       Observed(pass))

PassOver(pass) == pass.pc \in {"finished", "threw", "failed"}

\* the segment's record: the end of the pass, if it ended
PassLast(pass) == IF PassOver(pass) THEN PassEnd(pass) ELSE Internal

Healths == {"starting", "healthy"}

\* ------------------------------------------------------------- pod events
\* podManager.onStartPodEvent(pod => this.adoptPod(pod))
OnStartPodEvent(p) ==
  /\ [type |-> "start", podId |-> p] \in podEvents
  /\ podEvents' = podEvents \ {[type |-> "start", podId |-> p]}
  /\ applications' = IF p \in DOMAIN pods THEN AdoptPod(applications, pods[p])
                     ELSE applications
  /\ last' = Internal
  /\ UNCHANGED <<protectTasks, tasks, pods, podCount, ops, opCount, ticker, adoption,
                 externals, budget, inference, pgVars>>

\* podManager.onRemovePodEvent(({ podId }) => this.forgetPodById(podId))
OnRemovePodEvent(p) ==
  /\ [type |-> "remove", podId |-> p] \in podEvents
  /\ podEvents' = podEvents \ {[type |-> "remove", podId |-> p]}
  /\ LET after == ForgetPodById(applications, tasks, protectTasks, p)
     IN /\ applications' = after.apps
        /\ tasks' = after.tasks
        /\ protectTasks' = after.protect
  /\ last' = Internal
  /\ UNCHANGED <<pods, podCount, ops, opCount, ticker, adoption, externals, budget, inference, pgVars>>

\* the engine's event reaches the manager once init() has subscribed
EmitPod(e) == IF ticker.pc = "off" THEN podEvents ELSE podEvents \cup {e}

\* someone else removes a pod: the engine emits its remove event
ExternalRemovePod(p) ==
  /\ externals < budget.externals
  /\ p \in DOMAIN pods
  /\ pods' = MapDelete(pods, p)
  /\ podEvents' = EmitPod([type |-> "remove", podId |-> p])
  /\ externals' = externals + 1
  /\ last' = Internal
  /\ UNCHANGED <<applications, protectTasks, tasks, podCount, ops, opCount, ticker,
                 adoption, budget, inference, pgVars>>

\* someone else starts a pod that is not running: the engine emits its start event
ExternalStartPod(p) ==
  /\ externals < budget.externals
  /\ p \in DOMAIN pods
  /\ pods[p].Status # "Running"
  /\ pods' = [pods EXCEPT ![p].Status = "Running"]
  /\ podEvents' = EmitPod([type |-> "start", podId |-> p])
  /\ externals' = externals + 1
  /\ last' = Internal
  /\ UNCHANGED <<applications, protectTasks, tasks, podCount, ops, opCount, ticker,
                 adoption, budget, inference, pgVars>>

\* the containers of a running pod exit
PodExits(p) ==
  /\ externals < budget.externals
  /\ p \in DOMAIN pods
  /\ pods[p].Status = "Running"
  /\ pods' = [pods EXCEPT ![p].Status = "Exited"]
  /\ externals' = externals + 1
  /\ last' = Internal
  /\ UNCHANGED <<applications, protectTasks, tasks, podCount, podEvents, ops, opCount,
                 ticker, adoption, budget, inference, pgVars>>

\* ------------------------------------------------------------------ init()
\* init(): the subscriptions are made and the first tick is scheduled
InitCall ==
  /\ ticker.pc = "off"
  /\ ticker' = [ticker EXCEPT !.pc = "waiting", !.timers = 1]
  /\ adoption' = [adoption EXCEPT !.apps = "subscribed"]
  /\ last' = Call("init", "", "returned", {})
  /\ UNCHANGED <<applications, protectTasks, tasks, pods, podCount, podEvents, ops,
                 opCount, externals, budget, inference, pgVars>>

\* the startup callback: getPodsWithLabels([LABEL_RECIPE_ID]) is asked
AppAdoptionCall ==
  /\ adoption.apps = "subscribed"
  /\ adoption' = [adoption EXCEPT !.apps = "listing"]
  /\ last' = Internal
  /\ UNCHANGED <<appVars, budget, inference, pgVars>>

\* the listing resolved: every listed pod goes through adoptPod
AppAdoptionListed ==
  /\ adoption.apps = "listing"
  /\ adoption' = [adoption EXCEPT !.apps = "done"]
  /\ applications' = AdoptAll(applications, PodsWithLabels({LABEL_RECIPE_ID}))
  /\ last' = Call("adoptPods", "", "returned", {})
  /\ UNCHANGED <<protectTasks, tasks, pods, podCount, podEvents, ops, opCount, ticker,
                 externals, budget, inference, pgVars>>

\* the same with a timer that re-arms itself as it fires, as setInterval does
TickerFiresRearmed ==
  /\ ticker.timers > 0
  /\ ticker.ticks < budget.ticks
  /\ ticker' = [ticker EXCEPT !.pc = "running", !.ticks = @ + 1, !.running = @ + 1,
                              !.pass = [NoPass EXCEPT !.pc = "list"]]
  /\ last' = Internal
  /\ UNCHANGED <<applications, protectTasks, tasks, pods, podCount, podEvents, ops,
                 opCount, adoption, externals, budget, inference, pgVars>>

\* a scheduled timeout fires: ticker() calls checkPodsHealth, which asks for the
\* pods; timers counts the timeouts scheduled, running the passes of the ticker
\* that have not settled
TickerFires ==
  /\ ticker.timers > 0
  /\ ticker.ticks < budget.ticks
  /\ ticker' = [ticker EXCEPT !.pc = "running", !.ticks = @ + 1,
                              !.timers = @ - 1, !.running = @ + 1,
                              !.pass = [NoPass EXCEPT !.pc = "list"]]
  /\ last' = Internal
  /\ UNCHANGED <<applications, protectTasks, tasks, pods, podCount, podEvents, ops,
                 opCount, adoption, externals, budget, inference, pgVars>>

\* the ticker after a segment of its pass: finally() schedules the next tick
TickerAfter(pass) ==
  IF PassOver(pass)
  THEN [ticker EXCEPT !.pc = "waiting", !.pass = NoPass, !.running = @ - 1, !.timers = @ + 1]
  ELSE [ticker EXCEPT !.pass = pass]

\* getPodsWithLabels of the ticker's pass settled
TickerListed ==
  /\ ticker.pc = "running"
  /\ ticker.pass.pc = "list"
  /\ \E ok \in {TRUE} \cup budget.failures :
       LET pass == IF ok THEN PassListed(PodsWithLabels({LABEL_RECIPE_ID, LABEL_MODEL_ID}),
                                         applications)
                   ELSE [ticker.pass EXCEPT !.pc = "failed"]
       IN /\ ticker' = TickerAfter(pass)
          /\ last' = PassLast(pass)
  /\ UNCHANGED <<applications, protectTasks, tasks, pods, podCount, podEvents, ops,
                 opCount, adoption, externals, budget, inference, pgVars>>

\* getHealth of the ticker's pass settled
TickerHealth ==
  /\ ticker.pc = "running"
  /\ ticker.pass.pc = "getHealth"
  /\ \E h \in Healths \cup (IF FALSE \in budget.failures THEN {"rejected"} ELSE {}) :
       LET after == IF h = "rejected"
                    THEN [pass |-> [ticker.pass EXCEPT !.pc = "failed"], apps |-> applications]
                    ELSE HealthSettled(ticker.pass, applications, h)
       IN /\ ticker' = TickerAfter(after.pass)
          /\ applications' = after.apps
          /\ last' = PassLast(after.pass)
  /\ UNCHANGED <<protectTasks, tasks, pods, podCount, podEvents, ops, opCount, adoption,
                 externals, budget, inference, pgVars>>

\* dispose(): the disposable pushed by init() clears the timeout timerId refers to,
\* the one scheduled last; clearing a timeout that has fired already does nothing
Dispose ==
  /\ ticker.pc # "off"
  /\ ~ticker.disposed
  /\ ticker' = [ticker EXCEPT !.disposed = TRUE, !.timers = 0]
  /\ last' = Call("dispose", "", "returned", {"clearTimeout"})
  /\ UNCHANGED <<applications, protectTasks, tasks, pods, podCount, podEvents, ops,
                 opCount, adoption, externals, budget, inference, pgVars>>

\* ---------------------------------------------------- lifecycle operations
OpIds == 1..MaxOps

\* one invocation of a lifecycle operation: the call it awaits (pc), the method it
\* is in (stage) and its local variables
IdleOp == [pc |-> "idle", kind |-> "", stage |-> "", r |-> "", m |-> "", tracking |-> 0,
           since |-> 0,
           top |-> NoTask, task |-> NoTask, images |-> <<>>, todo |-> <<>>,
           portmappings |-> <<>>, podId |-> 0, podInfo |-> NoPod, appPod |-> NoPod,
           waitIdx |-> 0, attempts |-> 0, pass |-> NoPass]

InFlight == {i \in OpIds : ops[i].pc # "idle"}

\* the operations are requested once init() has run
FreeOp(i) ==
  /\ ticker.pc # "off"
  /\ opCount < budget.ops
  /\ Cardinality(InFlight) < budget.concurrent
  /\ ops[i].pc = "idle"
  /\ \A j \in OpIds : j < i => ops[j].pc # "idle"

\* the images builderManager.build can answer with
SampleApp == [modelService |-> FALSE, ports |-> <<<<"8", "0">>>>, appName |-> "app"]
SampleAppWithoutPorts == [modelService |-> FALSE, ports |-> <<>>, appName |-> "app"]
ModelService == [modelService |-> TRUE, ports |-> <<<<"8", "1">>>>, appName |-> "model"]

TypicalImages == <<SampleApp, ModelService>>
PortlessImages == <<SampleAppWithoutPorts, ModelService>>
ModelServiceOnly == <<ModelService>>

\* the labels the pipeline's tasks carry: {...labels, 'recipe-id', 'model-id'}
PipelineLabels(o) ==
  IF o.kind = "pull" THEN ("trackingId" :> o.tracking) @@ KeyLabels(o.r, o.m)
  ELSE KeyLabels(o.r, o.m)

\* images.flatMap(img => img.ports) over the images Keep selects
RECURSIVE FlatPorts(_, _)
FlatPorts(images, kinds) ==
  IF images = <<>> THEN <<>>
  ELSE (IF images[1].modelService \in kinds THEN images[1].ports ELSE <<>>)
       \o FlatPorts(Tail(images), kinds)

\* portmappings.find(pm => `${pm.container_port}` === port)?.host_port
HostPortOf(portmappings, port) ==
  LET hits == {k \in 1..Len(portmappings) :
                 NumberToString(portmappings[k].container_port) = port}
  IN IF hits = {} THEN UndefinedPort
     ELSE portmappings[CHOOSE k \in hits : \A j \in hits : k <= j].host_port

HostPortsOf(portmappings, ports) ==
  [k \in 1..Len(ports) |-> HostPortOf(portmappings, ports[k])]

\* the same labels without the model's id
PodLabelsWithoutModel(r, m, images, portmappings) ==
  LET modelPorts == HostPortsOf(portmappings, FlatPorts(images, {TRUE}))
      appPorts == HostPortsOf(portmappings, FlatPorts(images, {FALSE}))
  IN (LABEL_RECIPE_ID :> r)
     @@ (IF Len(modelPorts) > 0 THEN LABEL_MODEL_PORTS :> JoinPorts(modelPorts) ELSE <<>>)
     @@ (IF Len(appPorts) > 0 THEN LABEL_APP_PORTS :> JoinPorts(appPorts) ELSE <<>>)

\* the labels createPod gives the new pod
PodLabels(r, m, images, portmappings) ==
  LET modelPorts == HostPortsOf(portmappings, FlatPorts(images, {TRUE}))
      appPorts == HostPortsOf(portmappings, FlatPorts(images, {FALSE}))
  IN (LABEL_RECIPE_ID :> r) @@ (LABEL_MODEL_ID :> m)
     @@ (IF Len(modelPorts) > 0 THEN LABEL_MODEL_PORTS :> JoinPorts(modelPorts) ELSE <<>>)
     @@ (IF Len(appPorts) > 0 THEN LABEL_APP_PORTS :> JoinPorts(appPorts) ELSE <<>>)

\* what the end of an operation looked like: its key, its top-level task, the task
\* of the stage it ended in (0 when that stage has none), the pod it created, the
\* number of tasks created before it began, the containers runApplication waits
\* for (those of the descriptor it was given) and the pass that ended with it
OpEnd(o, out, stageTask, passes) ==
  Call(o.kind, [key |-> AppKey(o.r, o.m), top |-> o.top.id, task |-> stageTask.id,
                pod |-> o.podInfo.Id, images |-> o.images, since |-> o.since,
                waited |-> o.podInfo.Containers],
       out, passes)

\* requestPullApplication's catch and finally mark the top-level task
TopFailed(o, ts, err) ==
  IF o.kind = "pull"
  THEN UpdateTask(ts, [o.top EXCEPT !.state = "error",
                                    !.error = <<"Something went wrong while pulling">> \o err])
  ELSE ts

\* requestPullApplication's then and finally
TopSucceeded(o, ts) ==
  IF o.kind = "pull" THEN UpdateTask(ts, [o.top EXCEPT !.state = "success"]) ELSE ts

\* a segment of an operation: its invocation, the tasks and its record afterwards
OpStep(i, o, ts, l) ==
  /\ ops' = [ops EXCEPT ![i] = o]
  /\ tasks' = ts
  /\ last' = l

\* the operation's promise rejects
OpRejects(i, ts, stageTask, err) ==
  OpStep(i, IdleOp, TopFailed(ops[i], ts, err), OpEnd(ops[i], "rejected", stageTask, {}))

\* the operation goes on to its next await
OpAwaits(i, o, ts) == OpStep(i, o, ts, Internal)

Failed(task, err) == [task EXCEPT !.state = "error", !.error = err]

\* requestPullApplication(recipe, model) up to the first await of pullApplication
RequestPullApplication(i, r, m) ==
  /\ FreeOp(i)
  /\ "pull" \in budget.kinds
  /\ opCount' = opCount + 1
  /\ LET withTop == CreateTask(tasks, "Pulling recipe", "loading",
                               "trackingId" :> (opCount + 1))
         cleared == DeleteByLabels(withTop, KeyLabels(r, m))
         withCheckout == CreateTask(cleared, "Checking out repository", "loading",
                                    ("trackingId" :> (opCount + 1)) @@ KeyLabels(r, m)
                                    @@ ("git" :> "checkout"))
     IN /\ tasks' = withCheckout
        /\ ops' = [ops EXCEPT ![i] = [IdleOp EXCEPT !.pc = "processCheckout",
                                                     !.kind = "pull", !.stage = "init",
                                                     !.r = r, !.m = m,
                                                     !.tracking = opCount + 1,
                                                     !.since = tasks.counter,
                                                     !.top = Created(withTop),
                                                     !.task = Created(withCheckout)]]
  /\ last' = Call("requestPullApplication", AppKey(r, m), "returned", {})
  /\ UNCHANGED <<applications, protectTasks, pods, podCount, podEvents, ticker, adoption,
                 externals, budget, inference, pgVars>>

\* processCheckout settled; on success the configuration is loaded and filtered and
\* the model download is requested
CheckoutSettled(i) ==
  /\ ops[i].pc = "processCheckout"
  /\ LET o == ops[i] IN
     \/ /\ FALSE \in budget.failures
        /\ OpRejects(i, UpdateTask(tasks, Failed(o.task, <<"Error: checkout failed">>)),
                     o.task, <<"Error: checkout failed">>)
     \/ \E config \in budget.configs :
          LET checked == UpdateTask(tasks, [o.task EXCEPT !.state = "success"])
              withConfig == CreateTask(checked, "Loading configuration", "loading", <<>>)
              task == Created(withConfig)
          IN CASE config = "unreadable" ->
                    OpRejects(i, UpdateTask(withConfig,
                                   [task EXCEPT !.error =
                                      <<"Something went wrong while loading configuration",
                                        "Error: Cannot load configuration file.">>]),
                              task, <<"Error: Cannot load configuration file.">>)
               [] config = "empty" ->
                    OpRejects(i, UpdateTask(withConfig,
                                   [task EXCEPT !.error = <<"No containers available.">>]),
                              task, <<"Error: No containers available.">>)
               [] OTHER ->
                    OpAwaits(i, [o EXCEPT !.pc = "requestDownloadModel", !.task = NoTask],
                             UpdateTask(withConfig, [task EXCEPT !.state = "success"]))
  /\ UNCHANGED <<applications, protectTasks, pods, podCount, podEvents, opCount, ticker,
                 adoption, externals, budget, inference, pgVars>>

\* an awaited call of initApplication that has no task of its own settled
Settled(i, pc, next, err) ==
  /\ ops[i].pc = pc
  /\ \/ /\ FALSE \in budget.failures
        /\ OpRejects(i, tasks, NoTask, err)
     \/ OpAwaits(i, [ops[i] EXCEPT !.pc = next], tasks)
  /\ UNCHANGED <<applications, protectTasks, pods, podCount, podEvents, opCount, ticker,
                 adoption, externals, budget, inference, pgVars>>

DownloadSettled(i) ==
  Settled(i, "requestDownloadModel", "uploadModelToPodmanMachine",
          <<"Error: download failed">>)

UploadSettled(i) ==
  Settled(i, "uploadModelToPodmanMachine", "build", <<"Error: upload failed">>)

\* builderManager.build settled: hasApplicationPod is asked
BuildSettled(i) ==
  /\ ops[i].pc = "build"
  /\ \/ /\ FALSE \in budget.failures
        /\ OpRejects(i, tasks, NoTask, <<"Error: build failed">>)
     \/ \E images \in budget.images :
          OpAwaits(i, [ops[i] EXCEPT !.pc = "hasApplicationPod", !.images = images], tasks)
  /\ UNCHANGED <<applications, protectTasks, pods, podCount, podEvents, opCount, ticker,
                 adoption, externals, budget, inference, pgVars>>

CreatingFailed(task, err) ==
  Failed(task, <<"Something went wrong while creating pod">> \o err)

\* createApplicationPod up to its first await: the task is created, createPod looks
\* for the sample app and asks for the host port of the first declared port
EnterCreateApplicationPod(i, o, ts) ==
  LET withTask == CreateTask(ts, "Creating AI App", "loading", PipelineLabels(o))
      task == Created(withTask)
      ports == FlatPorts(o.images, {TRUE, FALSE})
  IN IF \A k \in 1..Len(o.images) : o.images[k].modelService
     THEN OpRejects(i, UpdateTask(withTask,
                                  CreatingFailed(task, <<"Error: no sample app found">>)),
                    task, <<"Error: no sample app found">>)
     ELSE OpAwaits(i, [o EXCEPT !.pc = IF ports = <<>> THEN "createPod" ELSE "getPortsInfo",
                                !.stage = "create", !.task = task, !.todo = ports,
                                !.portmappings = <<>>, !.appPod = NoPod],
                   withTask)

\* stopApplication up to its first await: the key's tasks are cleared and the pod
\* is looked up
EnterStopApplication(o, ts) ==
  [op |-> [o EXCEPT !.pc = "getApplicationPod", !.stage = "stop", !.task = NoTask],
   tasks |-> DeleteByLabels(ts, KeyLabels(o.r, o.m))]

\* hasApplicationPod settled: an existing pod is removed first
HasApplicationPodSettled(i) ==
  /\ ops[i].pc = "hasApplicationPod"
  /\ \/ /\ FALSE \in budget.failures
        /\ OpRejects(i, tasks, NoTask, <<"Error: list pods failed">>)
     \/ IF HasApplicationPod(ops[i].r, ops[i].m)
        THEN LET stop == EnterStopApplication(ops[i], tasks)
             IN OpAwaits(i, stop.op, stop.tasks)
        ELSE EnterCreateApplicationPod(i, ops[i], tasks)
  /\ UNCHANGED <<applications, protectTasks, pods, podCount, podEvents, opCount, ticker,
                 adoption, externals, budget, inference, pgVars>>

\* getPortsInfo settled for the next declared port: a mapping is pushed when a
\* host port came back, and the loop goes on or podManager.createPod is called
GetPortsInfoSettled(i) ==
  /\ ops[i].pc = "getPortsInfo"
  /\ \E localPorts \in budget.hostPorts :
       LET o == ops[i]
           pushed == IF localPorts = <<>> THEN o.portmappings
                     ELSE Append(o.portmappings,
                                 [container_port |-> ParseInt(o.todo[1]),
                                  host_port |-> ParseInt(localPorts)])
       IN OpAwaits(i, [o EXCEPT !.pc = IF Len(o.todo) = 1 THEN "createPod" ELSE "getPortsInfo",
                                  !.todo = Tail(o.todo), !.portmappings = pushed],
                   tasks)
  /\ UNCHANGED <<applications, protectTasks, pods, podCount, podEvents, opCount, ticker,
                 adoption, externals, budget, inference, pgVars>>

\* podManager.createPod settled: the engine holds the new pod, getPod is asked
CreatePodSettled(i) ==
  /\ ops[i].pc = "createPod"
  /\ LET o == ops[i] IN
     \/ /\ FALSE \in budget.failures
        /\ OpRejects(i, UpdateTask(tasks, CreatingFailed(o.task, <<"Error: create pod failed">>)),
                     o.task, <<"Error: create pod failed">>)
        /\ UNCHANGED <<pods, podCount>>
     \/ /\ pods' = MapSet(pods, podCount + 1,
                          [Id |-> podCount + 1, Status |-> "Created",
                           Labels |-> PodLabels(o.r, o.m, o.images, o.portmappings),
                           Containers |-> <<"infra">>])
        /\ podCount' = podCount + 1
        /\ OpAwaits(i, [o EXCEPT !.pc = "getPod", !.podId = podCount + 1], tasks)
  /\ UNCHANGED <<applications, protectTasks, podEvents, opCount, ticker, adoption,
                 externals, budget, inference, pgVars>>

\* podManager.getPod settled: the task gets the pod id and isQEMUMachine is asked
GetPodSettled(i) ==
  /\ ops[i].pc = "getPod"
  /\ LET o == ops[i] IN
     IF o.podId \in DOMAIN pods
     THEN LET task == [o.task EXCEPT !.labels = @ @@ ("pod-id" :> o.podId)]
          IN OpAwaits(i, [o EXCEPT !.pc = "isQEMUMachine", !.podInfo = pods[o.podId],
                                   !.task = task],
                      UpdateTask(tasks, task))
     ELSE OpRejects(i, UpdateTask(tasks, CreatingFailed(o.task, <<"Error: no such pod">>)),
                    o.task, <<"Error: no such pod">>)
  /\ UNCHANGED <<applications, protectTasks, pods, podCount, podEvents, opCount, ticker,
                 adoption, externals, budget, inference, pgVars>>

\* isQEMUMachine settled: one createContainer per image is issued
IsQEMUMachineSettled(i) ==
  /\ ops[i].pc = "isQEMUMachine"
  /\ OpAwaits(i, [ops[i] EXCEPT !.pc = "createContainer"], tasks)
  /\ UNCHANGED <<applications, protectTasks, pods, podCount, podEvents, opCount, ticker,
                 adoption, externals, budget, inference, pgVars>>

ContainerNames(images) == [k \in 1..Len(images) |-> images[k].appName]

\* Promise.all over the createContainer calls settled; on success runApplication
\* creates its task and asks the engine to start the pod
CreateContainersSettled(i) ==
  /\ ops[i].pc = "createContainer"
  /\ LET o == ops[i] IN
     \/ /\ o.podId \in DOMAIN pods
        /\ pods' = [pods EXCEPT ![o.podId].Containers = @ \o ContainerNames(o.images)]
        /\ LET created == UpdateTask(tasks, [o.task EXCEPT !.state = "success"])
               withTask == CreateTask(created, "Starting AI App", "loading",
                                      PipelineLabels(o))
           IN OpAwaits(i, [o EXCEPT !.pc = "startPod", !.stage = "run",
                                    !.task = Created(withTask)],
                       withTask)
     \/ /\ FALSE \in budget.failures \/ o.podId \notin DOMAIN pods
        /\ pods' = pods
        /\ OpRejects(i, UpdateTask(tasks,
                                   CreatingFailed(o.task, <<"Error: create container failed">>)),
                     o.task, <<"Error: create container failed">>)
  /\ UNCHANGED <<applications, protectTasks, podCount, podEvents, opCount, ticker,
                 adoption, externals, budget, inference, pgVars>>

\* runApplication after its loop over podInfo.Containers: the task is marked and
\* checkPodsHealth asks for the pods
Started(o, ts) ==
  [op |-> [o EXCEPT !.pc = "checkPodsHealth", !.pass = [NoPass EXCEPT !.pc = "list"],
                    !.waitIdx = 0, !.attempts = 0],
   tasks |-> UpdateTask(ts, [o.task EXCEPT !.state = "success",
                                           !.name = "AI App is running"])]

\* podManager.startPod settled: nothing marks the task when it rejects
StartPodSettled(i) ==
  /\ ops[i].pc = "startPod"
  /\ LET o == ops[i] IN
     \/ /\ FALSE \in budget.failures \/ o.podId \notin DOMAIN pods
        /\ OpRejects(i, tasks, o.task, <<"Error: start pod failed">>)
        /\ UNCHANGED <<pods, podEvents>>
     \/ /\ o.podId \in DOMAIN pods
        /\ pods' = [pods EXCEPT ![o.podId].Status = "Running"]
        /\ podEvents' = IF pods[o.podId].Status = "Running" THEN podEvents
                        ELSE EmitPod([type |-> "start", podId |-> o.podId])
        /\ IF o.podInfo.Containers = <<>>
           THEN LET run == Started(o, tasks) IN OpAwaits(i, run.op, run.tasks)
           ELSE OpAwaits(i, [o EXCEPT !.pc = "inspectContainer", !.waitIdx = 1], tasks)
  /\ UNCHANGED <<applications, protectTasks, podCount, opCount, ticker, adoption,
                 externals, budget, inference, pgVars>>

\* inspectContainer of waitContainerIsRunning settled (after the 5 s pause when it
\* is not the first attempt)
InspectContainerSettled(i) ==
  /\ ops[i].pc = "inspectContainer"
  /\ LET o == ops[i] IN
     \/ /\ o.podId \in DOMAIN pods
        /\ pods[o.podId].Status = "Running"
        /\ IF o.waitIdx = Len(o.podInfo.Containers)
           THEN LET run == Started(o, tasks) IN OpAwaits(i, run.op, run.tasks)
           ELSE OpAwaits(i, [o EXCEPT !.waitIdx = @ + 1, !.attempts = 0], tasks)
     \/ IF o.attempts + 1 < budget.attempts
        THEN OpAwaits(i, [o EXCEPT !.attempts = @ + 1], tasks)
        ELSE OpRejects(i, tasks, o.task, <<"Error: Container not started in time">>)
  /\ UNCHANGED <<applications, protectTasks, pods, podCount, podEvents, opCount, ticker,
                 adoption, externals, budget, inference, pgVars>>

\* removeApplication after stopApplication returned: the task is created, the pod
\* is protected and the engine is asked to remove it
EnterRemovePod(o, ts) ==
  LET withTask == CreateTask(ts, "Removing AI App", "loading", KeyLabels(o.r, o.m))
  IN [op |-> [o EXCEPT !.pc = "removePod", !.stage = "remove", !.task = Created(withTask),
                       !.pass = NoPass],
      tasks |-> withTask]

PassEnds(pass) == IF PassOver(pass) THEN {PassEnd(pass)} ELSE {}

\* the same without the protection of the pod
AfterStopUnprotected(i, o, ts) ==
  IF o.kind = "stop"
  THEN /\ OpStep(i, IdleOp, ts, OpEnd(o, "resolved", NoTask, PassEnds(o.pass)))
       /\ protectTasks' = protectTasks
  ELSE LET remove == EnterRemovePod(o, ts)
       IN /\ OpStep(i, remove.op, remove.tasks, PassLast(o.pass))
          /\ protectTasks' = protectTasks

\* what follows the return of stopApplication
AfterStop(i, o, ts) ==
  IF o.kind = "stop"
  THEN /\ OpStep(i, IdleOp, ts, OpEnd(o, "resolved", NoTask, PassEnds(o.pass)))
       /\ protectTasks' = protectTasks
  ELSE LET remove == EnterRemovePod(o, ts)
       IN /\ OpStep(i, remove.op, remove.tasks, PassLast(o.pass))
          /\ protectTasks' = protectTasks \cup {o.appPod.Id}

PassError(pass) ==
  IF pass.pc = "threw" THEN <<"TypeError: Cannot read properties of undefined">>
  ELSE <<"Error: engine call failed">>

\* a segment of a pass run by an operation: runApplication returns the result of
\* the pass, stopApplication awaits it in its finally block
PassStep(i, o, ts) ==
  IF ~PassOver(o.pass)
  THEN /\ OpAwaits(i, o, ts)
       /\ protectTasks' = protectTasks
  ELSE IF o.pass.pc # "finished"
  THEN /\ OpStep(i, IdleOp, TopFailed(o, ts, PassError(o.pass)),
                 OpEnd(o, "rejected", NoTask, PassEnds(o.pass)))
       /\ protectTasks' = protectTasks
  ELSE IF o.stage = "run"
  THEN /\ OpStep(i, IdleOp, TopSucceeded(o, ts), OpEnd(o, "resolved", NoTask, PassEnds(o.pass)))
       /\ protectTasks' = protectTasks
  ELSE AfterStop(i, o, ts)

\* getPodsWithLabels of an operation's pass settled
OpPassListed(i) ==
  /\ ops[i].pc = "checkPodsHealth"
  /\ ops[i].pass.pc = "list"
  /\ \E ok \in {TRUE} \cup budget.failures :
       LET pass == IF ok THEN PassListed(PodsWithLabels({LABEL_RECIPE_ID, LABEL_MODEL_ID}),
                                         applications)
                   ELSE [ops[i].pass EXCEPT !.pc = "failed"]
       IN PassStep(i, [ops[i] EXCEPT !.pass = pass], tasks)
  /\ UNCHANGED <<applications, pods, podCount, podEvents, opCount, ticker, adoption,
                 externals, budget, inference, pgVars>>

\* getHealth of an operation's pass settled
OpPassHealth(i) ==
  /\ ops[i].pc = "checkPodsHealth"
  /\ ops[i].pass.pc = "getHealth"
  /\ \E h \in Healths \cup (IF FALSE \in budget.failures THEN {"rejected"} ELSE {}) :
       LET after == IF h = "rejected"
                    THEN [pass |-> [ops[i].pass EXCEPT !.pc = "failed"], apps |-> applications]
                    ELSE HealthSettled(ops[i].pass, applications, h)
       IN /\ applications' = after.apps
          /\ PassStep(i, [ops[i] EXCEPT !.pass = after.pass], tasks)
  /\ UNCHANGED <<pods, podCount, podEvents, opCount, ticker, adoption, externals, budget, inference,
                 pgVars>>

\* stopApplication(recipeId, modelId) / removeApplication(recipeId, modelId) up to
\* the lookup of the pod
StopOrRemoveCall(i, kind, r, m) ==
  /\ FreeOp(i)
  /\ kind \in budget.kinds
  /\ opCount' = opCount + 1
  /\ LET stop == EnterStopApplication([IdleOp EXCEPT !.kind = kind, !.r = r, !.m = m,
                                                     !.since = tasks.counter], tasks)
     IN /\ ops' = [ops EXCEPT ![i] = stop.op]
        /\ tasks' = stop.tasks
  /\ last' = Call(IF kind = "stop" THEN "stopApplication" ELSE "removeApplication",
                  AppKey(r, m), "await", {})
  /\ UNCHANGED <<applications, protectTasks, pods, podCount, podEvents, ticker, adoption,
                 externals, budget, inference, pgVars>>

StopApplicationCall(i, r, m) == StopOrRemoveCall(i, "stop", r, m)

RemoveApplicationCall(i, r, m) == StopOrRemoveCall(i, "remove", r, m)

\* startApplication(recipeId, modelId) up to the lookup of the pod
StartApplicationCall(i, r, m) ==
  /\ FreeOp(i)
  /\ "start" \in budget.kinds
  /\ opCount' = opCount + 1
  /\ ops' = [ops EXCEPT ![i] = [IdleOp EXCEPT !.pc = "getApplicationPod", !.kind = "start",
                                               !.stage = "start", !.r = r, !.m = m,
                                               !.since = tasks.counter]]
  /\ tasks' = DeleteByLabels(tasks, KeyLabels(r, m))
  /\ last' = Call("startApplication", AppKey(r, m), "await", {})
  /\ UNCHANGED <<applications, protectTasks, pods, podCount, podEvents, ticker, adoption,
                 externals, budget, inference, pgVars>>

\* restartApplication(recipeId, modelId) up to the lookup of the pod whose model
\* it captures
RestartApplicationCall(i, r, m) ==
  /\ FreeOp(i)
  /\ "restart" \in budget.kinds
  /\ opCount' = opCount + 1
  /\ ops' = [ops EXCEPT ![i] = [IdleOp EXCEPT !.pc = "getApplicationPod", !.kind = "restart",
                                               !.stage = "restart", !.r = r, !.m = m,
                                               !.since = tasks.counter]]
  /\ last' = Call("restartApplication", AppKey(r, m), "await", {})
  /\ UNCHANGED <<applications, protectTasks, tasks, pods, podCount, podEvents, ticker,
                 adoption, externals, budget, inference, pgVars>>

\* getApplicationPod settled: no pod is an error; restartApplication goes on to
\* removeApplication, startApplication goes on to
\* runApplication with the pod found, and stopApplication does not stop an exited
\* pod again
GetApplicationPodSettled(i) ==
  /\ ops[i].pc = "getApplicationPod"
  /\ LET o == ops[i]
         appPod == FindPod(o.r, o.m)
     IN IF appPod = NoPod
        THEN /\ OpRejects(i, tasks, NoTask, <<"Error: no pod found">>)
             /\ protectTasks' = protectTasks
        ELSE IF o.stage = "restart"
        THEN LET stop == EnterStopApplication([o EXCEPT !.appPod = appPod], tasks)
             IN /\ OpAwaits(i, stop.op, stop.tasks)
                /\ protectTasks' = protectTasks
        ELSE IF o.stage = "start"
        THEN LET withTask == CreateTask(tasks, "Starting AI App", "loading",
                                        KeyLabels(o.r, o.m))
             IN /\ OpAwaits(i, [o EXCEPT !.pc = "startPod", !.stage = "run",
                                         !.podId = appPod.Id, !.podInfo = appPod,
                                         !.task = Created(withTask)],
                            withTask)
                /\ protectTasks' = protectTasks
        ELSE IF appPod.Status = "Exited"
        THEN AfterStop(i, [o EXCEPT !.appPod = appPod], tasks)
        ELSE LET withTask == CreateTask(tasks, "Stopping AI App", "loading",
                                        KeyLabels(o.r, o.m))
             IN /\ OpAwaits(i, [o EXCEPT !.pc = "stopPod", !.appPod = appPod,
                                         !.task = Created(withTask)],
                            withTask)
                /\ protectTasks' = protectTasks
  /\ UNCHANGED <<applications, pods, podCount, podEvents, opCount, ticker, adoption,
                 externals, budget, inference, pgVars>>

\* a stopApplication that stores its task only when stopPod succeeded
StopPodSettledWithoutFinally(i) ==
  /\ ops[i].pc = "stopPod"
  /\ LET o == ops[i]
         next == [o EXCEPT !.pc = "checkPodsHealth", !.pass = [NoPass EXCEPT !.pc = "list"]]
     IN \/ /\ o.appPod.Id \in DOMAIN pods
           /\ pods' = [pods EXCEPT ![o.appPod.Id].Status = "Exited"]
           /\ OpAwaits(i, next, UpdateTask(tasks, [o.task EXCEPT !.state = "success",
                                                                !.name = "AI App Stopped"]))
        \/ /\ FALSE \in budget.failures \/ o.appPod.Id \notin DOMAIN pods
           /\ pods' = pods
           /\ OpAwaits(i, next, tasks)
  /\ UNCHANGED <<applications, protectTasks, podCount, podEvents, opCount, ticker,
                 adoption, externals, budget, inference, pgVars>>

\* podManager.stopPod settled: the task is marked either way and a pass begins
StopPodSettled(i) ==
  /\ ops[i].pc = "stopPod"
  /\ LET o == ops[i]
         next == [o EXCEPT !.pc = "checkPodsHealth", !.pass = [NoPass EXCEPT !.pc = "list"]]
     IN \/ /\ o.appPod.Id \in DOMAIN pods
           /\ pods' = [pods EXCEPT ![o.appPod.Id].Status = "Exited"]
           /\ OpAwaits(i, next, UpdateTask(tasks, [o.task EXCEPT !.state = "success",
                                                                !.name = "AI App Stopped"]))
        \/ /\ FALSE \in budget.failures \/ o.appPod.Id \notin DOMAIN pods
           /\ pods' = pods
           /\ OpAwaits(i, next,
                       UpdateTask(tasks, [o.task EXCEPT
                                            !.error = <<"Error removing the pod.",
                                                        "Error: stop pod failed">>,
                                            !.name = "Error stopping AI App"]))
  /\ UNCHANGED <<applications, protectTasks, podCount, podEvents, opCount, ticker,
                 adoption, externals, budget, inference, pgVars>>

\* removeApplication was called by initApplication, which holds the built images:
\* a pull calls it nowhere else, a restart also calls it before initApplication
InInitApplication(o) == o.kind = "pull" \/ (o.kind = "restart" /\ o.images # <<>>)

\* initApplication up to the await of cloneApplication's checkout, as
\* restartApplication calls it: without labels of the caller
EnterCloneApplication(o, ts) ==
  LET withCheckout == CreateTask(ts, "Checking out repository", "loading",
                                 KeyLabels(o.r, o.m) @@ ("git" :> "checkout"))
  IN [op |-> [o EXCEPT !.pc = "processCheckout", !.stage = "init",
                       !.task = Created(withCheckout), !.appPod = NoPod, !.pass = NoPass],
      tasks |-> withCheckout]

\* the engine carries out the removePod it was asked for: the pod is gone and its
\* remove event is emitted, before the call is answered
PodRemoved(i) ==
  /\ ops[i].pc = "removePod"
  /\ ops[i].appPod.Id \in DOMAIN pods
  /\ pods' = MapDelete(pods, ops[i].appPod.Id)
  /\ podEvents' = EmitPod([type |-> "remove", podId |-> ops[i].appPod.Id])
  /\ OpAwaits(i, [ops[i] EXCEPT !.pc = "removePodDone"], tasks)
  /\ UNCHANGED <<applications, protectTasks, podCount, opCount, ticker, adoption,
                 externals, budget, inference, pgVars>>

\* the same with the failure of removePod thrown on to the caller
RemovePodSettledRethrowing(i) ==
  /\ ops[i].pc \in {"removePod", "removePodDone"}
  /\ LET o == ops[i]
         removed == o.pc = "removePodDone"
         marked == UpdateTask(tasks,
                              IF removed
                              THEN [o.task EXCEPT !.state = "success",
                                                  !.name = "AI App Removed"]
                              ELSE [o.task EXCEPT
                                      !.error = <<"error removing the pod. Please try to remove the pod manually">>,
                                      !.name = "Error stopping AI App"])
     IN /\ removed \/ FALSE \in budget.failures \/ o.appPod.Id \notin DOMAIN pods
        /\ IF ~removed THEN OpRejects(i, marked, o.task, <<"Error: remove pod failed">>)
           ELSE IF InInitApplication(o) THEN EnterCreateApplicationPod(i, o, marked)
           ELSE IF o.kind = "restart"
           THEN LET clone == EnterCloneApplication(o, marked)
                IN OpAwaits(i, clone.op, clone.tasks)
           ELSE OpStep(i, IdleOp, marked, OpEnd(o, "resolved", NoTask, {}))
  /\ UNCHANGED <<applications, protectTasks, pods, podCount, podEvents, opCount, ticker,
                 adoption, externals, budget, inference, pgVars>>

\* podManager.removePod settled: the task is marked either way; a pull goes on to
\* create the new pod
RemovePodSettled(i) ==
  /\ ops[i].pc \in {"removePod", "removePodDone"}
  /\ LET o == ops[i]
         removed == o.pc = "removePodDone"
         marked == UpdateTask(tasks,
                              IF removed
                              THEN [o.task EXCEPT !.state = "success",
                                                  !.name = "AI App Removed"]
                              ELSE [o.task EXCEPT
                                      !.error = <<"error removing the pod. Please try to remove the pod manually">>,
                                      !.name = "Error stopping AI App"])
     IN /\ removed \/ FALSE \in budget.failures \/ o.appPod.Id \notin DOMAIN pods
        /\ IF InInitApplication(o) THEN EnterCreateApplicationPod(i, o, marked)
           ELSE IF o.kind = "restart"
           THEN LET clone == EnterCloneApplication(o, marked)
                IN OpAwaits(i, clone.op, clone.tasks)
           ELSE OpStep(i, IdleOp, marked, OpEnd(o, "resolved", NoTask, {}))
  /\ UNCHANGED <<applications, protectTasks, pods, podCount, podEvents, opCount, ticker,
                 adoption, externals, budget, inference, pgVars>>

\* ------------------------------------------------ adoptRunningPlaygrounds
\* the same loop without the filter on the engine state
AdoptContainerInAnyState(pg, c, container) ==
  IF ~(container.hasModelId /\ container.hasPort) THEN pg
  ELSE IF container.modelId \in DOMAIN pg THEN pg
  ELSE IF ParseInt(container.portLabel) = NaN THEN pg
  ELSE MapSet(pg, container.modelId,
              RunningState(container.modelId, c, ParseInt(container.portLabel)))

\* an adoption loop that does not look whether the model is tracked already
AdoptContainerOverwriting(pg, c, container) ==
  IF ~(container.hasModelId /\ container.hasPort /\ container.State = "running") THEN pg
  ELSE IF ParseInt(container.portLabel) = NaN THEN pg
  ELSE MapSet(pg, container.modelId,
              RunningState(container.modelId, c, ParseInt(container.portLabel)))

\* the body of the adoption loop for one listed container
AdoptContainer(pg, c, container) ==
  IF ~(container.hasModelId /\ container.hasPort /\ container.State = "running") THEN pg
  ELSE IF container.modelId \in DOMAIN pg THEN pg
  ELSE IF ParseInt(container.portLabel) = NaN THEN pg
  ELSE MapSet(pg, container.modelId,
              RunningState(container.modelId, c, ParseInt(container.portLabel)))

\* the loop over the listed containers, in the order of the listing
RECURSIVE AdoptContainers(_, _, _)
AdoptContainers(pg, cs, c) ==
  IF c \notin DOMAIN cs THEN pg
  ELSE AdoptContainers(AdoptContainer(pg, c, cs[c]), cs, c + 1)

\* adoptRunningPlaygrounds(): the startup callback is registered
AdoptRunningPlaygroundsCall ==
  /\ adoption.playgrounds = "off"
  /\ adoption' = [adoption EXCEPT !.playgrounds = "subscribed"]
  /\ last' = Call("adoptRunningPlaygrounds", "", "returned", {})
  /\ UNCHANGED <<pgVars, appVars, budget, inference>>

\* the startup callback: containerEngine.listContainers() is asked
PlaygroundAdoptionCall ==
  /\ adoption.playgrounds = "subscribed"
  /\ adoption' = [adoption EXCEPT !.playgrounds = "listing"]
  /\ last' = Internal
  /\ UNCHANGED <<pgVars, appVars, budget, inference>>

\* the listing settled: the running playground containers are adopted, or the
\* error is logged
PlaygroundAdoptionListed ==
  /\ adoption.playgrounds = "listing"
  /\ adoption' = [adoption EXCEPT !.playgrounds = "done"]
  /\ \E ok \in BOOLEAN :
       /\ playgrounds' = IF ok THEN AdoptContainers(playgrounds, containers, 1)
                         ELSE playgrounds
       /\ last' = Call("adoptPlaygrounds", "", IF ok THEN "returned" ELSE "logged", {})
  /\ UNCHANGED <<queries, queryIdCounter, starts, stops, asks, containers, events, subs,
                 stopsIssued, appVars, budget, inference>>

\* ========================================================== LlamaCppPython
\* workers/provider/LlamaCppPython.ts: the provider that turns an inference
\* server configuration into a container
LLAMA_CPP_CPU == "ghcr.io/containers/llamacpp_python:latest"
LLAMA_CPP_CUDA == "ghcr.io/containers/llamacpp_python_cuda:latest"

\* the health check interval, in nanoseconds, is SECOND * 5: kept as the factor
HealthCheckIntervalSeconds == 5
HealthCheckRetries == 4 * 5

LABEL_INFERENCE_SERVER == "ai-lab-inference-server"
DISABLE_SELINUX_LABEL_SECURITY_OPTION == "label=disable"

\* calls of perform() one behaviour makes, and GPUs the host may hold
MaxPerforms == 2
MaxGPUs == 2

\* modelInfo.file of a model that is not on disk
NoFile == [file |-> Undefined, path |-> Undefined]
LocalFile == [file |-> "model.gguf", path |-> "/home/models"]

LocalModel(id) == [id |-> id, file |-> LocalFile]
RemoteModel(id) == [id |-> id, file |-> NoFile]

\* config.modelsInfo: none, one on disk, one not on disk, two
ModelsInfos ==
  { <<>>, <<LocalModel("m1")>>, <<RemoteModel("m1")>>,
    <<LocalModel("m1"), LocalModel("m2")>>, <<RemoteModel("m1"), LocalModel("m2")>> }

\* config.gpuLayers: an optional number, <<>> when undefined
GpuLayers == { <<>>, <<0>>, <<20>> }

InferenceServerConfigs ==
  [modelsInfo : ModelsInfos, gpuLayers : GpuLayers,
   image : {Undefined, "quay.io/custom/llamacpp:latest"},
   port : {8888}, providerId : {Undefined}, labels : {("trackingId" :> "t1")}]

NoConfig == [modelsInfo |-> <<>>, gpuLayers |-> <<>>, image |-> Undefined,
             port |-> 0, providerId |-> Undefined, labels |-> <<>>]

\* gpu?: IGPUInfo, undefined without one
NoGPU == [model |-> Undefined]

\* what gpuManager.collectGPUs() finds on a host with n GPUs
CollectGPUs(n) == [k \in 1..n |-> [model |-> "gpu-" \o ToString(k)]]

NoImageInfo == [Id |-> Undefined, engineId |-> Undefined]

\* what pullImage resolves to for an image name
PulledImage(name) == [Id |-> "sha256:" \o name, engineId |-> "podman"]

NoOptions == [Image |-> Undefined]

\* (config.gpuLayers ?? 0) !== 0
GpuRequested(config) ==
  (IF config.gpuLayers = <<>> THEN 0 ELSE config.gpuLayers[1]) # 0

\* gpus.length === 0 after the enumeration: perform throws
NoGpuFoundIgnored(gpus) == FALSE

NoGpuFound(gpus) == Len(gpus) = 0

\* gpu = gpus[0]
FirstGPU(gpus) == IF Len(gpus) = 0 THEN NoGPU ELSE gpus[1]

\* config.image ?? (gpu ? LLAMA_CPP_CUDA : LLAMA_CPP_CPU)
ImageName(config, gpu) ==
  IF config.image # Undefined THEN config.image
  ELSE IF gpu # NoGPU THEN LLAMA_CPP_CUDA ELSE LLAMA_CPP_CPU

\* the error getContainerCreateOptions throws for a configuration, "" for none
ConfigErrorAllowingSeveralModels(config) ==
  IF Len(config.modelsInfo) = 0
    THEN "Need at least one model info to start an inference server."
  ELSE IF config.modelsInfo[1].file = NoFile
    THEN "The model info file provided is undefined"
  ELSE ""

ConfigError(config) ==
  IF Len(config.modelsInfo) = 0
    THEN "Need at least one model info to start an inference server."
  ELSE IF Len(config.modelsInfo) > 1
    THEN "Currently the inference server does not support multiple models serving."
  ELSE IF config.modelsInfo[1].file = NoFile
    THEN "The model info file provided is undefined"
  ELSE ""

\* getModelPropertiesForEnvironment(modelInfo): the models here have none
GetModelPropertiesForEnvironment(modelInfo) == <<>>

\* the parts of the specification the "if (gpu)" branch fills
GpuMounts == <<[Target |-> "/usr/lib/wsl", Source |-> "/usr/lib/wsl", Type |-> "bind"]>>
GpuDeviceRequests == <<[Capabilities |-> << <<"gpu">> >>, Count |-> 0 - 1]>>
GpuDevices ==
  <<[PathOnHost |-> "/dev/dxg", PathInContainer |-> "/dev/dxg", CgroupPermissions |-> "r"]>>
GpuEntrypoint == "/usr/bin/sh"
GpuUser == "0"
GpuCmd ==
  <<"-c",
    "/usr/bin/ln -s /usr/lib/wsl/lib/* /usr/lib64/ && PATH=\"${PATH}:/usr/lib/wsl/lib/\" && chmod 755 ./run.sh && ./run.sh">>

\* `GPU_LAYERS=${config.gpuLayers}`
GpuLayersEnv(config) ==
  "GPU_LAYERS=" \o (IF config.gpuLayers = <<>> THEN Undefined
                    ELSE ToString(config.gpuLayers[1]))

\* config.modelsInfo.map(model => model.id)
ServedModelIds(config) == [k \in DOMAIN config.modelsInfo |-> config.modelsInfo[k].id]

\* the specification built for a configuration that ConfigError accepts
ContainerCreateOptions(config, imageInfo, gpu) ==
  LET modelInfo == config.modelsInfo[1]
      withGpu == gpu # NoGPU
  IN [ Image |-> imageInfo.Id,
       Detach |-> TRUE,
       Entrypoint |-> IF withGpu THEN GpuEntrypoint ELSE Undefined,
       User |-> IF withGpu THEN GpuUser ELSE Undefined,
       ExposedPorts |-> {ToString(config.port)},
       HostConfig |->
         [ AutoRemove |-> FALSE,
           Devices |-> IF withGpu THEN GpuDevices ELSE <<>>,
           Mounts |-> <<[Target |-> "/models", Source |-> modelInfo.file.path,
                         Type |-> "bind"]>>
                      \o (IF withGpu THEN GpuMounts ELSE <<>>),
           DeviceRequests |-> IF withGpu THEN GpuDeviceRequests ELSE <<>>,
           SecurityOpt |-> <<DISABLE_SELINUX_LABEL_SECURITY_OPTION>>,
           PortBindings |-> ("8000/tcp" :> <<[HostPort |-> ToString(config.port)]>>) ],
       HealthCheck |->
         [ Test |-> <<"CMD-SHELL", "curl -sSf localhost:8000/docs > /dev/null">>,
           Interval |-> HealthCheckIntervalSeconds,
           Retries |-> HealthCheckRetries ],
       Labels |-> (LABEL_INFERENCE_SERVER :> ServedModelIds(config)) @@ config.labels,
       Env |-> <<"MODEL_PATH=/models/" \o modelInfo.file.file, "HOST=0.0.0.0", "PORT=8000">>
               \o GetModelPropertiesForEnvironment(modelInfo)
               \o (IF withGpu THEN <<GpuLayersEnv(config)>> ELSE <<>>),
       Cmd |-> IF withGpu THEN GpuCmd ELSE <<>> ]

\* the same specification with `user` left undefined
GetContainerCreateOptionsKeepingUser(config, imageInfo, gpu) ==
  [ContainerCreateOptions(config, imageInfo, gpu) EXCEPT !.User = Undefined]

GetContainerCreateOptions(config, imageInfo, gpu) ==
  ContainerCreateOptions(config, imageInfo, gpu)

\* no perform() in flight
IdleInference ==
  [pc |-> "idle", config |-> NoConfig, collected |-> <<>>, gpu |-> NoGPU,
   imageInfo |-> NoImageInfo, options |-> NoOptions, calls |-> <<>>, performs |-> 0]

\* what a finished perform() is remembered by
Performed(call) ==
  [config |-> call.config, collected |-> call.collected, gpu |-> call.gpu,
   imageInfo |-> call.imageInfo, options |-> call.options]

\* perform() settles: out is "resolved" or the message of the error thrown
PerformSettles(call, out) ==
  /\ inference' = [IdleInference EXCEPT !.performs = inference.performs]
  /\ last' = Call("perform", Performed(call), out, call.calls)

\* perform(config), up to its first await
PerformCall(config) ==
  /\ inference.pc = "idle"
  /\ inference.performs < MaxPerforms
  /\ LET call == [inference EXCEPT !.config = config, !.performs = @ + 1]
     IN IF GpuRequested(config)
          THEN inference' = [call EXCEPT !.pc = "collectGPUs",
                                         !.calls = <<"collectGPUs">>]
          ELSE inference' = [call EXCEPT !.pc = "pullImage",
                                         !.calls = <<"pullImage">>]
  /\ last' = Call("perform", config, "await", {})
  /\ UNCHANGED <<pgVars, appVars, adoption, budget>>

\* gpuManager.collectGPUs() settles: with the GPUs of the host, or rejected
CollectGPUsSettled ==
  /\ inference.pc = "collectGPUs"
  /\ \/ \E n \in 0..MaxGPUs :
          LET gpus == CollectGPUs(n)
              call == [inference EXCEPT !.collected = <<gpus>>]
          IN IF NoGpuFound(gpus)
               THEN PerformSettles(call, "no gpu was found.")
               ELSE /\ inference' = [call EXCEPT !.gpu = FirstGPU(gpus),
                                                 !.pc = "pullImage",
                                                 !.calls = Append(@, "pullImage")]
                    /\ last' = Call("collectGPUs", n, "resolved", {})
     \/ PerformSettles(inference, "collectGPUs failed")
  /\ UNCHANGED <<pgVars, appVars, adoption, budget>>

\* pullImage settles; on success the specification is built and createContainer
\* is called, unless the configuration is rejected
PullImageSettled ==
  /\ inference.pc = "pullImage"
  /\ \/ LET imageInfo == PulledImage(ImageName(inference.config, inference.gpu))
            call == [inference EXCEPT !.imageInfo = imageInfo]
        IN IF ConfigError(inference.config) # ""
             THEN PerformSettles(call, ConfigError(inference.config))
             ELSE /\ inference' =
                       [call EXCEPT
                          !.options = GetContainerCreateOptions(
                                        inference.config, imageInfo, inference.gpu),
                          !.pc = "createContainer",
                          !.calls = Append(@, "createContainer")]
                  /\ last' = Call("pullImage", ImageName(inference.config, inference.gpu),
                                  "resolved", {})
     \/ PerformSettles(inference, "pullImage failed")
  /\ UNCHANGED <<pgVars, appVars, adoption, budget>>

\* createContainer settles, and perform() with it
CreateContainerSettled ==
  /\ inference.pc = "createContainer"
  /\ \E out \in {"resolved", "createContainer failed"} : PerformSettles(inference, out)
  /\ UNCHANGED <<pgVars, appVars, adoption, budget>>

\* ---------------------------------------------------------- initial states
NoApplications == [ops |-> 0, concurrent |-> 0, ticks |-> 0, externals |-> 0,
                   failures |-> {}, images |-> {}, configs |-> {}, hostPorts |-> {},
                   attempts |-> 0, keys |-> {}, kinds |-> {}]

NoPlaygrounds == [starts |-> 0, probes |-> 0, stops |-> 0, queries |-> 0, chunks |-> 0,
                  ports |-> {}]

LifecycleBudget == [starts |-> MaxStarts, probes |-> MaxProbes, stops |-> MaxStops,
                    queries |-> 0, chunks |-> 0, ports |-> {80}] @@ NoApplications

StopBudget == [starts |-> QueryStarts, probes |-> QueryProbes, stops |-> MaxStops,
               queries |-> 0, chunks |-> 0, ports |-> {80}] @@ NoApplications

QueryBudget == [starts |-> QueryStarts, probes |-> QueryProbes, stops |-> QueryStops,
                queries |-> MaxQueries, chunks |-> MaxChunks, ports |-> FreePorts]
               @@ NoApplications

AppBudget == [ops |-> MaxOps, concurrent |-> 1, ticks |-> 0, externals |-> 0,
              failures |-> {FALSE},
              images |-> {TypicalImages, PortlessImages, ModelServiceOnly},
              configs |-> {"ok", "unreadable", "empty"},
              hostPorts |-> {<<"9", "0">>, <<>>},
              attempts |-> MaxAttempts, keys |-> {<<"r1", "m1">>},
              kinds |-> {"pull", "start", "stop", "remove"}] @@ NoPlaygrounds

HealthBudget == [ops |-> HealthOps, concurrent |-> 1, ticks |-> MaxTicks,
                 externals |-> MaxExternals, failures |-> {},
                 images |-> {TypicalImages}, configs |-> {"ok"},
                 hostPorts |-> {<<"9", "0">>},
                 attempts |-> MaxAttempts, keys |-> {<<"r1", "m1">>},
                 kinds |-> {"pull"}] @@ NoPlaygrounds

PollBudget == [HealthBudget EXCEPT !.ops = 0, !.ticks = PollTicks]

StartupBudget == [HealthBudget EXCEPT !.ops = 0, !.ticks = 0, !.externals = 0]

\* stops and removals of an application next to the stops of a playground
StoppingBudget == [starts |-> QueryStarts, probes |-> QueryProbes, stops |-> MaxStops,
                   queries |-> 0, chunks |-> 0, ports |-> {80},
                   ops |-> HealthOps, concurrent |-> 1, ticks |-> 0, externals |-> 0,
                   failures |-> {FALSE}, images |-> {}, configs |-> {}, hostPorts |-> {},
                   attempts |-> 0, keys |-> {<<"r1", "m1">>}, kinds |-> {"stop", "remove"}]

\* the state after construction
Constructed ==
  /\ playgrounds = <<>>
  /\ queries = <<>>
  /\ queryIdCounter = 0
  /\ starts = [i \in StartIds |-> IdleStart]
  /\ stops = <<>>
  /\ asks = <<>>
  /\ containers = <<>>
  /\ events = <<>>
  /\ inference = IdleInference
  /\ subs = {}
  /\ stopsIssued = 0
  /\ last = Internal
  /\ applications = <<>>
  /\ protectTasks = {}
  /\ tasks = [counter |-> 0, all |-> <<>>]
  /\ pods = <<>>
  /\ podCount = 0
  /\ podEvents = {}
  /\ ops = [i \in OpIds |-> IdleOp]
  /\ opCount = 0
  /\ externals = 0
  /\ ticker = [pc |-> "off", pass |-> NoPass, ticks |-> 0, timers |-> 0, running |-> 0,
               disposed |-> FALSE]
  /\ adoption = [apps |-> "off", playgrounds |-> "off"]

Init == budget = LifecycleBudget /\ Constructed

InitQuery == budget = QueryBudget /\ Constructed

InitStop == budget = StopBudget /\ Constructed

InitApp == budget = AppBudget /\ Constructed

InitHealth == budget = HealthBudget /\ Constructed

\* the label sets of the pods a previous session or someone else left behind
IdentityLabels(r, m) == (LABEL_RECIPE_ID :> r) @@ (LABEL_MODEL_ID :> m)

LeftLabels ==
  { IdentityLabels("r1", "m1") @@ (LABEL_APP_PORTS :> <<"9", "0">>)
                               @@ (LABEL_MODEL_PORTS :> <<"9", "1">>),
    IdentityLabels("r1", "m1") @@ (LABEL_APP_PORTS :> <<"9", "2">>),
    IdentityLabels("r1", "m2") @@ (LABEL_APP_PORTS :> <<"9", "0", ",", "x">>),
    LABEL_RECIPE_ID :> "r1" }

LeftPods ==
  UNION {[1..n -> [Status : {"Running", "Exited"}, Labels : LeftLabels]] : n \in 0..MaxPods}

\* the containers left behind: labelled or not, running or not, with port labels
\* that parse or do not
LeftContainer ==
  { [State |-> "running", hasModelId |-> TRUE, modelId |-> "m1", hasPort |-> TRUE,
     portLabel |-> <<"8", "0">>, external |-> TRUE],
    [State |-> "running", hasModelId |-> TRUE, modelId |-> "m1", hasPort |-> TRUE,
     portLabel |-> <<"8", "1">>, external |-> TRUE],
    [State |-> "exited", hasModelId |-> TRUE, modelId |-> "m1", hasPort |-> TRUE,
     portLabel |-> <<"8", "0">>, external |-> TRUE],
    [State |-> "running", hasModelId |-> TRUE, modelId |-> "m2", hasPort |-> TRUE,
     portLabel |-> <<"x">>, external |-> TRUE],
    [State |-> "running", hasModelId |-> TRUE, modelId |-> "m2", hasPort |-> FALSE,
     portLabel |-> <<>>, external |-> TRUE] }

LeftContainers == UNION {[1..n -> LeftContainer] : n \in 0..MaxContainers}

\* the managers are constructed over an engine that already holds pods
ConstructedOver(left, cs) ==
  /\ playgrounds = <<>>
  /\ queries = <<>>
  /\ queryIdCounter = 0
  /\ starts = [i \in StartIds |-> IdleStart]
  /\ stops = <<>>
  /\ asks = <<>>
  /\ containers = cs
  /\ events = [c \in DOMAIN cs |-> <<>>]
  /\ inference = IdleInference
  /\ subs = {}
  /\ stopsIssued = 0
  /\ last = Internal
  /\ applications = <<>>
  /\ protectTasks = {}
  /\ tasks = [counter |-> 0, all |-> <<>>]
  /\ pods = [k \in DOMAIN left |->
               [Id |-> k, Status |-> left[k].Status, Labels |-> left[k].Labels,
                Containers |-> <<"infra", "app", "model">>]]
  /\ podCount = Len(left)
  /\ podEvents = {}
  /\ ops = [i \in OpIds |-> IdleOp]
  /\ opCount = 0
  /\ externals = 0
  /\ ticker = [pc |-> "off", pass |-> NoPass, ticks |-> 0, timers |-> 0, running |-> 0,
               disposed |-> FALSE]
  /\ adoption = [apps |-> "off", playgrounds |-> "off"]

InitPoll == budget = PollBudget /\ \E left \in LeftPods : ConstructedOver(left, <<>>)

InitStartup ==
  /\ budget = StartupBudget
  /\ \E left \in LeftPods, cs \in LeftContainers : ConstructedOver(left, cs)

\* one application pod left behind, running or exited
LeftApplication ==
  {<<[Status |-> st,
      Labels |-> IdentityLabels("r1", "m1") @@ (LABEL_APP_PORTS :> <<"9", "0">>)]>> :
     st \in {"Running", "Exited"}}

InitStopping ==
  /\ budget = StoppingBudget
  /\ \E left \in LeftApplication : ConstructedOver(left, <<>>)

\* ----------------------------------------------------- the application specs
Startup ==
  \/ InitCall
  \/ AppAdoptionCall
  \/ AppAdoptionListed

PodEvents ==
  \/ \E p \in PodIds : OnStartPodEvent(p)
  \/ \E p \in PodIds : OnRemovePodEvent(p)

Polling ==
  \/ TickerFires
  \/ TickerListed
  \/ TickerHealth

Outside ==
  \/ \E p \in PodIds : ExternalRemovePod(p)
  \/ \E p \in PodIds : ExternalStartPod(p)
  \/ \E p \in PodIds : PodExits(p)

Pulls ==
  \/ \E i \in OpIds, k \in budget.keys : RequestPullApplication(i, k[1], k[2])
  \/ \E i \in OpIds : CheckoutSettled(i)
  \/ \E i \in OpIds : DownloadSettled(i)
  \/ \E i \in OpIds : UploadSettled(i)
  \/ \E i \in OpIds : BuildSettled(i)
  \/ \E i \in OpIds : HasApplicationPodSettled(i)
  \/ \E i \in OpIds : GetPortsInfoSettled(i)
  \/ \E i \in OpIds : CreatePodSettled(i)
  \/ \E i \in OpIds : GetPodSettled(i)
  \/ \E i \in OpIds : IsQEMUMachineSettled(i)
  \/ \E i \in OpIds : CreateContainersSettled(i)
  \/ \E i \in OpIds : StartPodSettled(i)
  \/ \E i \in OpIds : InspectContainerSettled(i)
  \/ \E i \in OpIds : OpPassListed(i)
  \/ \E i \in OpIds : OpPassHealth(i)

StopsAndRemoves ==
  \/ \E i \in OpIds, k \in budget.keys : StartApplicationCall(i, k[1], k[2])
  \/ \E i \in OpIds, k \in budget.keys : StopApplicationCall(i, k[1], k[2])
  \/ \E i \in OpIds, k \in budget.keys : RemoveApplicationCall(i, k[1], k[2])
  \/ \E i \in OpIds : GetApplicationPodSettled(i)
  \/ \E i \in OpIds : StopPodSettled(i)
  \/ \E i \in OpIds : PodRemoved(i)
  \/ \E i \in OpIds : RemovePodSettled(i)

PlaygroundStartup ==
  \/ AdoptRunningPlaygroundsCall
  \/ PlaygroundAdoptionCall
  \/ PlaygroundAdoptionListed

Operations == Startup \/ PodEvents \/ Pulls \/ StopsAndRemoves

\* the lifecycle operations, one at a time, with the pod events they cause
SpecApp == InitApp /\ [][Operations]_vars

Reconciliation == Startup \/ PodEvents \/ Pulls \/ Polling \/ Outside

\* one pull under the recurring health check and changes made behind its back
SpecHealth == InitHealth /\ [][Reconciliation]_vars

Polls == Startup \/ PodEvents \/ Polling \/ Outside

\* the recurring health check over pods left behind by a previous session
SpecPoll == InitPoll /\ [][Polls]_vars

Adoptions == Startup \/ PlaygroundStartup

\* the same, every emitted pod event being handled and every started pass going on:
\* the engine delivers the events it emits and answers the calls made to it
SpecPollFair ==
  /\ SpecPoll
  /\ \A p \in PodIds : WF_vars(OnRemovePodEvent(p)) /\ WF_vars(OnStartPodEvent(p))
  /\ WF_vars(Polling)

\* the recurring health check of a manager that is disposed at some point
DisposeBudget == [PollBudget EXCEPT !.ticks = MaxTicks, !.externals = 0]

InitDispose == budget = DisposeBudget /\ \E left \in LeftPods : ConstructedOver(left, <<>>)

Disposals == Startup \/ Polling \/ Dispose

SpecDispose == InitDispose /\ [][Disposals]_vars

\* the startup adoption of the pods and containers left behind
SpecStartup == InitStartup /\ [][Adoptions]_vars

\* ------------------------------------------------------- the playground specs
Lifecycle ==
  \/ \E m \in ModelIds : StartPlaygroundCall(m)
  \/ \E i \in StartIds : SelectImageDone(i)
  \/ \E i \in StartIds : PullImageDone(i)
  \/ \E i \in StartIds : SelectImage2Done(i)
  \/ \E i \in StartIds : GetFreePortDone(i)
  \/ \E i \in StartIds : CreateContainerDone(i)
  \/ \E i \in StartIds : FetchDone(i)
  \/ \E i \in StartIds : StartStopContainerDone(i)
  \/ \E c \in ContainerIds : DeliverEvent(c)
  \/ \E c \in ContainerIds : ContainerDies(c)
  \/ \E m \in ModelIds : StopPlaygroundCall(m)
  \/ \E k \in 1..MaxStops : StopContainerResolved(k)
  \/ \E k \in 1..MaxStops : StopContainerRejected(k)

Queries ==
  \/ \E m \in ModelIds, p \in Prompts : AskPlaygroundCall(m, p)
  \/ \E k \in 1..MaxQueries : AskCreateDone(k)
  \/ \E k \in 1..MaxQueries : AskChunk(k)
  \/ \E k \in 1..MaxQueries : AskStreamOver(k)

\* start, stop and container lifecycle of the playgrounds
SpecPG == Init /\ [][Lifecycle]_vars

NextQuery == Lifecycle \/ Queries

\* the query sessions over a short playground lifecycle
SpecQuery == InitQuery /\ [][NextQuery]_vars

\* the adoptions next to one start of a playground: two running pods of one
\* application and up to MaxContainers containers are in the engine already, and
\* no container dies meanwhile
AdoptBudget == [starts |-> QueryStarts, probes |-> QueryProbes, stops |-> 0,
                queries |-> 0, chunks |-> 0, ports |-> {80}] @@ StartupBudget

LeftTwins ==
  {left \in LeftPods :
     /\ Len(left) = MaxPods
     /\ \A k \in 1..MaxPods :
          /\ left[k].Status = "Running"
          /\ LABEL_MODEL_ID \in DOMAIN left[k].Labels
          /\ left[k].Labels[LABEL_MODEL_ID] = "m1"
          /\ LABEL_MODEL_PORTS \in DOMAIN left[k].Labels <=> k = 1}

InitAdopt ==
  /\ budget = AdoptBudget
  /\ \E left \in LeftTwins, cs \in LeftContainers : ConstructedOver(left, cs)

StartsAndAdoptions ==
  \/ Startup
  \/ PlaygroundStartup
  \/ \E m \in ModelIds : StartPlaygroundCall(m)
  \/ \E i \in StartIds : SelectImageDone(i)
  \/ \E i \in StartIds : PullImageDone(i)
  \/ \E i \in StartIds : SelectImage2Done(i)
  \/ \E i \in StartIds : GetFreePortDone(i)
  \/ \E i \in StartIds : CreateContainerDone(i)
  \/ \E i \in StartIds : FetchDone(i)
  \/ \E i \in StartIds : StartStopContainerDone(i)
  \/ \E c \in ContainerIds : DeliverEvent(c)

SpecAdopt == InitAdopt /\ [][StartsAndAdoptions]_vars

\* the adopted playgrounds while their containers die: the engine delivers every
\* event it emitted
InitAdopted ==
  /\ budget = StartupBudget
  /\ \E cs \in LeftContainers : ConstructedOver(<<>>, cs)

Demotions ==
  \/ PlaygroundStartup
  \/ \E c \in ContainerIds : ContainerDies(c)
  \/ \E c \in ContainerIds : DeliverEvent(c)

SpecAdopted ==
  /\ InitAdopted
  /\ [][Demotions]_vars
  /\ \A c \in ContainerIds : WF_vars(DeliverEvent(c))

\* a stopContainer promise, once issued, settles: the engine answers every call
StopSettles == \E k \in 1..MaxStops : StopContainerResolved(k) \/ StopContainerRejected(k)

\* one start and the stops of its container, every issued stop being answered
SpecStop == InitStop /\ [][Lifecycle]_vars /\ WF_vars(StopSettles)

Stopping ==
  \/ Startup
  \/ \E p \in PodIds : OnRemovePodEvent(p)
  \/ \E i \in OpIds, k \in budget.keys : StopApplicationCall(i, k[1], k[2])
  \/ \E i \in OpIds, k \in budget.keys : RemoveApplicationCall(i, k[1], k[2])
  \/ \E i \in OpIds : GetApplicationPodSettled(i)
  \/ \E i \in OpIds : StopPodSettled(i)
  \/ \E i \in OpIds : PodRemoved(i)
  \/ \E i \in OpIds : RemovePodSettled(i)
  \/ \E i \in OpIds : OpPassListed(i)
  \/ \E i \in OpIds : OpPassHealth(i)
  \/ Lifecycle

\* the stops and removals of both managers, with engine calls that can fail
SpecStopping == InitStopping /\ [][Stopping]_vars

\* restarts of the application a pod left in the engine serves
RestartBudget == [ops |-> MaxOps, concurrent |-> 1, ticks |-> 0, externals |-> 0,
                  failures |-> {FALSE}, images |-> {TypicalImages}, configs |-> {"ok"},
                  hostPorts |-> {<<"9", "0">>}, attempts |-> MaxAttempts,
                  keys |-> {<<"r1", "m1">>}, kinds |-> {"restart"}] @@ NoPlaygrounds

InitRestart ==
  /\ budget = RestartBudget
  /\ \E left \in LeftApplication : ConstructedOver(left, <<>>)

Restarts ==
  \/ Startup
  \/ PodEvents
  \/ \E i \in OpIds, k \in budget.keys : RestartApplicationCall(i, k[1], k[2])
  \/ \E i \in OpIds : GetApplicationPodSettled(i)
  \/ \E i \in OpIds : StopPodSettled(i)
  \/ \E i \in OpIds : PodRemoved(i)
  \/ \E i \in OpIds : RemovePodSettled(i)
  \/ \E i \in OpIds : CheckoutSettled(i)
  \/ \E i \in OpIds : DownloadSettled(i)
  \/ \E i \in OpIds : UploadSettled(i)
  \/ \E i \in OpIds : BuildSettled(i)
  \/ \E i \in OpIds : HasApplicationPodSettled(i)
  \/ \E i \in OpIds : GetPortsInfoSettled(i)
  \/ \E i \in OpIds : CreatePodSettled(i)
  \/ \E i \in OpIds : GetPodSettled(i)
  \/ \E i \in OpIds : IsQEMUMachineSettled(i)
  \/ \E i \in OpIds : CreateContainersSettled(i)
  \/ \E i \in OpIds : StartPodSettled(i)
  \/ \E i \in OpIds : InspectContainerSettled(i)
  \/ \E i \in OpIds : OpPassListed(i)
  \/ \E i \in OpIds : OpPassHealth(i)

SpecRestart == InitRestart /\ [][Restarts]_vars

\* the LlamaCppPython provider on its own: perform() called with every
\* configuration, on hosts with and without GPUs
InferenceBudget == NoPlaygrounds @@ NoApplications

InitLlama == budget = InferenceBudget /\ Constructed

Performs ==
  \/ \E config \in InferenceServerConfigs : PerformCall(config)
  \/ CollectGPUsSettled
  \/ PullImageSettled
  \/ CreateContainerSettled

SpecLlama == InitLlama /\ [][Performs]_vars

\* ------------------------------------------------------------------ claims
Busy == {"running", "starting", "stopping"}

StatusOf(m) == IF Has(m) THEN playgrounds[m].status ELSE "untracked"

\* C1: a startPlayground call made while the playground is running, starting or
\* stopping throws, leaves the playground map as it was, starts no invocation and
\* issues no engine call.
C1_StartRejectedWhileBusy ==
  [][\A m \in ModelIds :
       (last'.op = "startPlayground" /\ last'.arg = m /\ StatusOf(m) \in Busy)
       => /\ last'.out \in {"playground is already running", "playground is transitioning"}
          /\ last'.calls = {}
          /\ playgrounds' = playgrounds
          /\ starts' = starts
          /\ containers' = containers]_vars

\* a start was rejected for a stopping playground while another one is tracked
C1_Witness ==
  /\ last.op = "startPlayground"
  /\ last.out = "playground is transitioning"
  /\ StatusOf(last.arg) = "stopping"
  /\ \E m \in ModelIds : m # last.arg /\ Has(m)

\* C2: when a start whose probe never succeeded before the ceiling fails, the
\* playground's status is error, none or stopped and its container is not running.
C2_TimeoutLeavesNoStarting ==
  [][\A i \in StartIds :
       (starts[i].pc = "stopContainer" /\ starts[i].timedOut /\ starts'[i].pc = "threw")
       => /\ playgrounds'[starts[i].modelId].status \in {"error", "none", "stopped"}
          /\ containers'[starts[i].cid].State # "running"]_vars

\* C8: askPlayground for a model whose playground is not running throws 'model is
\* not running' and leaves the query-session set as it was.
C8_AskRejectedUnlessRunning ==
  [][\A m \in ModelIds :
       (last'.op = "askPlayground" /\ last'.arg = m /\ StatusOf(m) # "running")
       => /\ last'.out = "model is not running"
          /\ queries' = queries
          /\ asks' = asks]_vars

PendingStop(m) == \E k \in 1..Len(stops) : stops[k].modelId = m

\* C9: stopPlayground throws and changes nothing without a container descriptor;
\* otherwise it returns with the status stopping and the engine stop still pending;
\* when the engine stop settles the status becomes stopped on success and error on
\* failure, and every pending stop leads to one of the two.
C9_StopPlayground ==
  /\ [][\A m \in ModelIds :
          /\ (last'.op = "stopPlayground" /\ last'.arg = m
                 /\ GetOrEmpty(m).container = NoContainer)
              => /\ last'.out = "model is not running"
                 /\ playgrounds' = playgrounds
                 /\ stops' = stops
                 /\ containers' = containers
          /\ (last'.op = "stopPlayground" /\ last'.arg = m
                 /\ GetOrEmpty(m).container # NoContainer)
              => /\ last'.out = "returned"
                 /\ playgrounds'[m].status = "stopping"
                 /\ stops' = Append(stops, [modelId |-> m,
                                            cid |-> playgrounds[m].container.containerId])
                 /\ containers' = containers
          /\ \A k \in 1..Len(stops) :
                (stops[k].modelId = m /\ stops' = RemoveAt(stops, k))
                => playgrounds'[m].status =
                     IF containers' # containers THEN "stopped" ELSE "error"]_vars
  /\ \A m \in ModelIds :
       PendingStop(m) ~> (StatusOf(m) \in {"stopped", "error"})

\* a stop failed and a stop succeeded in the same run
C9_Witness ==
  /\ stopsIssued = 2
  /\ stops = <<>>
  /\ \E m \in ModelIds : StatusOf(m) = "error"
  /\ \E c \in DOMAIN containers : containers[c].State = "removed"
  /\ last = Internal

\* the passes that ended with the latest segment: the ticker's or an operation's
EndedPasses(l) ==
  IF l.op = "checkPodsHealth" THEN {l}
  ELSE IF l.op \in {"pull", "stop", "remove"} THEN l.calls
  ELSE {}

\* C3: the pull pipeline removes the pod the engine holds for a (recipe, model)
\* pair before it creates the new one, so the engine never holds two pods that
\* carry the same pair of identity labels.
C3_AtMostOnePodPerPair ==
  \A p, q \in DOMAIN pods :
    (PodKey(pods[p]) = PodKey(pods[q]) /\ Undefined \notin {PodKey(pods[p])[1], PodKey(pods[p])[2]})
    => p = q

\* C4: when a stage of the pull pipeline that has a task fails, that task ends in
\* state error with the cause as its error text, and the top-level pull task is
\* marked error too.
C4_FailedStageMarksItsTask ==
  [][(last'.op = "pull" /\ last'.out = "rejected" /\ last'.arg.task # 0)
       => /\ last'.arg.task \in DOMAIN tasks'.all
          /\ tasks'.all[last'.arg.task].state = "error"
          /\ tasks'.all[last'.arg.task].error # NoError
          /\ tasks'.all[last'.arg.top].state = "error"]_vars

\* C5: when a pass of checkPodsHealth has completed, every pod it listed that the
\* engine still holds has a registry entry for its (recipeId, modelId) key.
C5_ObservedPodsAreRegistered ==
  [][\A pass \in EndedPasses(last') :
       pass.out \in {"notified", "silent"}
       => \A p \in pass.calls :
            p \in DOMAIN pods' => PodKey(pods'[p]) \in DOMAIN applications']_vars

\* C6: when a pull resolves, the registry holds an entry for its key, the entry's
\* pod is the pod this pull created, and its appPorts is not empty when an
\* application image declares ports.
C6_ResolvedPullIsRegistered ==
  [][(last'.op = "pull" /\ last'.out = "resolved")
       => /\ last'.arg.key \in DOMAIN applications'
          /\ applications'[last'.arg.key].pod.Id = last'.arg.pod
          /\ (FlatPorts(last'.arg.images, {FALSE}) # <<>>
                => applications'[last'.arg.key].appPorts # <<>>)]_vars

\* C7: a pass of checkPodsHealth that updated a registry entry notifies the
\* observers, once, and a pass that updated none notifies nobody; passes cut
\* short by a rejected engine call are left aside.
C7_PassNotifiesWhenItChanged ==
  [][\A pass \in EndedPasses(last') :
       pass.out # "failed"
       => /\ pass.arg = "changed" => pass.out = "notified"
          /\ pass.arg = "unchanged" => pass.out # "notified"]_vars

\* the listed pods that carry both identity labels, in the order of the listing
WellLabelled(listed) ==
  {k \in 1..Len(listed) : /\ Label(listed[k].Labels, LABEL_RECIPE_ID) \notin {Undefined, ""}
                          /\ Label(listed[k].Labels, LABEL_MODEL_ID) \notin {Undefined, ""}}

\* the application half of adoption: every key found among the listed pods is
\* registered with the fields parsed from the first listed pod that bears it, and
\* the keys tracked before keep their entries
AppsAdopted ==
  (adoption.apps = "listing" /\ adoption'.apps = "done")
  => LET listed == PodsWithLabels({LABEL_RECIPE_ID})
         found == WellLabelled(listed)
     IN /\ DOMAIN applications' = DOMAIN applications \cup {PodKey(listed[k]) : k \in found}
        /\ \A key \in DOMAIN applications : applications'[key] = applications[key]
        /\ \A k \in found :
             (PodKey(listed[k]) \notin DOMAIN applications
                /\ \A j \in found : PodKey(listed[j]) = PodKey(listed[k]) => k <= j)
             => applications'[PodKey(listed[k])] =
                  [recipeId |-> listed[k].Labels[LABEL_RECIPE_ID],
                   modelId |-> listed[k].Labels[LABEL_MODEL_ID],
                   pod |-> listed[k],
                   appPorts |-> GetPortsFromLabel(listed[k].Labels, LABEL_APP_PORTS),
                   modelPorts |-> GetPortsFromLabel(listed[k].Labels, LABEL_MODEL_PORTS),
                   health |-> "starting"]

AllDigits(chars) == chars # <<>> /\ \A k \in 1..Len(chars) : IsDigit(chars[k])

PlaygroundsListed ==
  adoption.playgrounds = "listing" /\ adoption'.playgrounds = "done" /\ last'.out = "returned"

\* the statement of C10 as the specification words it: after adoption every pod
\* and every container with well-formed labels has its key registered, with the
\* fields parsed from a resource bearing the key.
C10_EveryLabelledResourceAdopted ==
  [][/\ AppsAdopted
     /\ PlaygroundsListed
        => \A c \in DOMAIN containers :
             (containers[c].hasModelId /\ containers[c].hasPort
                /\ AllDigits(containers[c].portLabel))
             => /\ containers[c].modelId \in DOMAIN playgrounds'
                /\ \E d \in DOMAIN containers :
                     /\ containers[d].hasModelId /\ containers[d].hasPort
                     /\ playgrounds'[containers[c].modelId] =
                          RunningState(containers[d].modelId, d,
                                       ParseInt(containers[d].portLabel))]_vars

\* the containers adoptRunningPlaygrounds can adopt: both labels, the engine state
\* running and a port label that parses
Adoptable ==
  {c \in DOMAIN containers : /\ containers[c].hasModelId /\ containers[c].hasPort
                             /\ containers[c].State = "running"
                             /\ ParseInt(containers[c].portLabel) # NaN}

\* C10 (amended): after adoption every key found among the listed pods that carry
\* both identity labels, and every model id found among the labelled containers
\* that are running and whose port label parses, is registered with the fields
\* parsed from the first such resource; no other key is added and the keys
\* tracked before keep their state.
C10_RunningResourcesAdopted ==
  [][/\ AppsAdopted
     /\ PlaygroundsListed
        => /\ DOMAIN playgrounds' =
                DOMAIN playgrounds \cup {containers[c].modelId : c \in Adoptable}
           /\ \A m \in DOMAIN playgrounds : playgrounds'[m] = playgrounds[m]
           /\ \A c \in Adoptable :
                (containers[c].modelId \notin DOMAIN playgrounds
                   /\ \A d \in Adoptable :
                        containers[d].modelId = containers[c].modelId => c <= d)
                => playgrounds'[containers[c].modelId] =
                     [modelId |-> containers[c].modelId, status |-> "running",
                      container |-> [containerId |-> c, engineId |-> EngineId,
                                     port |-> ParseInt(containers[c].portLabel)]]]_vars

\* both adoptions ran over two pods of one key, a running playground container
\* and an exited one: one application, of the first pod, and one playground
C10_Witness ==
  /\ adoption = [apps |-> "done", playgrounds |-> "done"]
  /\ Cardinality(DOMAIN pods) = 2
  /\ \A p \in DOMAIN pods : PodKey(pods[p]) = <<"r1", "m1">>
  /\ DOMAIN applications = {<<"r1", "m1">>}
  /\ applications[<<"r1", "m1">>].pod.Id = 1
  /\ Cardinality(DOMAIN containers) = 2
  /\ \E c \in DOMAIN containers : containers[c].State = "exited"
  /\ \E c \in DOMAIN containers : c \in Adoptable
  /\ DOMAIN playgrounds = {"m1"}
  /\ playgrounds["m1"].container.port \in {80, 81}

\* the step of the pull pipeline an invocation is in, by the call it awaits:
\* checkout and configuration, download, upload, build, removal of the existing
\* pod, pod creation, containers, start and wait, and the closing health pass
PullStep(o) ==
  CASE o.pc = "processCheckout" -> 1
    [] o.pc = "requestDownloadModel" -> 2
    [] o.pc = "uploadModelToPodmanMachine" -> 3
    [] o.pc = "build" -> 4
    [] o.pc = "hasApplicationPod" \/ o.stage \in {"stop", "remove"} -> 5
    [] o.pc \in {"getPortsInfo", "createPod", "getPod"} -> 6
    [] o.pc \in {"isQEMUMachine", "createContainer"} -> 7
    [] o.pc \in {"startPod", "inspectContainer"} -> 8
    [] OTHER -> 9

\* the steps of every pull follow one another and a failed step ends the pull
PullStepsInOrder ==
  \A i \in OpIds :
    /\ (ops[i].pc = "idle" /\ ops'[i].pc # "idle" /\ ops'[i].kind = "pull")
         => /\ PullStep(ops'[i]) = 1
            /\ \A t \in DOMAIN tasks'.all :
                 LabelsMatch(tasks'.all[t].labels, KeyLabels(ops'[i].r, ops'[i].m))
                 => t = ops'[i].task.id
    /\ (ops[i].kind = "pull" /\ ops'[i].pc # "idle")
         => PullStep(ops'[i]) \in {PullStep(ops[i]), PullStep(ops[i]) + 1}
    /\ (ops[i].kind = "pull" /\ ops'[i].pc = "idle" /\ PullStep(ops[i]) < 9)
         => last'.out = "rejected"

\* C11: a pull clears the key's tasks, then checks out and loads the
\* configuration, downloads, uploads, builds, removes the pod the engine holds for
\* the pair, creates the pod, attaches the containers, starts the pod and waits,
\* each step after the one before it succeeded; a failed step ends the pull.
C11_PullStepsInStrictOrder ==
  [][/\ PullStepsInOrder
     /\ \A i \in OpIds :
          (ops[i].kind = "pull" /\ PullStep(ops[i]) = 5 /\ ops'[i].pc # "idle"
             /\ PullStep(ops'[i]) = 6)
          => FindPod(ops[i].r, ops[i].m) = NoPod]_vars

\* C12: when a pull, a start or a stop begins for a key, the tasks created before
\* it with the key's recipe-id and model-id labels are gone before it creates a
\* task for the key; and when it fails, the ledger holds error tasks of this run
\* only, none of an earlier run.
C12_FailedRunLeavesItsOwnErrorsOnly ==
  [][/\ \A i \in OpIds :
          (ops[i].pc = "idle" /\ ops'[i].pc # "idle")
          => \A t \in DOMAIN tasks'.all :
               LabelsMatch(tasks'.all[t].labels, KeyLabels(ops'[i].r, ops'[i].m))
               => t > ops'[i].since
     /\ (last'.op \in {"pull", "start", "stop"} /\ last'.out = "rejected")
          => \A t \in DOMAIN tasks'.all :
               tasks'.all[t].state = "error" => t > last'.arg.since]_vars

\* C13: runApplication polls each container of the pod a bounded number of times;
\* when a pull or a start resolves, every container the pod holds, the attached
\* ones included, was waited for and observed running, and the wait never goes
\* past its last attempt.
C13_EveryContainerWaitedFor ==
  [][/\ \A i \in OpIds : ops'[i].pc = "inspectContainer" => ops'[i].attempts < budget.attempts
     /\ (last'.op \in {"pull", "start"} /\ last'.out = "resolved"
           /\ last'.arg.pod \in DOMAIN pods')
          => \A k \in 1..Len(pods'[last'.arg.pod].Containers) :
               \E j \in 1..Len(last'.arg.waited) :
                 last'.arg.waited[j] = pods'[last'.arg.pod].Containers[k]]_vars

StoppedManually(ts) == {t \in DOMAIN ts.all : ts.all[t].name = "AI App stopped manually"}

\* C14: the pod is in the protect set before removePod is issued, and handling the
\* remove event of a pod removed through removeApplication creates no 'AI App
\* stopped manually' task, whether the event is handled before or after removePod
\* is answered.
C14_OwnRemovalIsNotReportedManual ==
  [][/\ \A i \in OpIds : ops'[i].pc = "removePod" => ops'[i].appPod.Id \in protectTasks'
     /\ \A p \in PodIds :
          ([type |-> "remove", podId |-> p] \in podEvents
             /\ [type |-> "remove", podId |-> p] \notin podEvents' /\ externals = 0)
          => StoppedManually(tasks') = StoppedManually(tasks)]_vars

\* the remove event of a registered pod was handled while removePod was still
\* unanswered: the entry is gone, the protection is used up, no task was added
C14_Witness ==
  /\ \E i \in OpIds : ops[i].pc = "removePodDone" /\ ops[i].kind = "remove"
  /\ podEvents = {}
  /\ applications = <<>>
  /\ protectTasks = {}
  /\ StoppedManually(tasks) = {}

\* C15: at most one checkPodsHealth started by the ticker is in flight, and no
\* timeout is scheduled while one is: the next tick is scheduled only when the
\* pass has settled.
C15_TickerPassesNeverOverlap ==
  /\ ticker.running <= 1
  /\ ticker.running = 1 => ticker.timers = 0
  /\ ticker.running = 0 /\ ticker.pc # "off" => ticker.timers = 1

\* the second pass of the ticker is in flight, the first one having settled
C15_Witness ==
  /\ ticker.ticks = 2
  /\ ticker.running = 1
  /\ ticker.pass.pc = "getHealth"

\* C16: an error raised inside a pass of checkPodsHealth is contained: no pull,
\* start or stop is rejected with it, and when a pass of the ticker fails the
\* next tick is scheduled all the same.
C16_PassErrorsAreContained ==
  [][/\ \A pass \in EndedPasses(last') :
          pass.out \in {"threw", "failed"}
          => ~(last'.op \in {"pull", "start", "stop"} /\ last'.out = "rejected")
     /\ (last'.op = "checkPodsHealth" /\ last'.out \in {"threw", "failed"})
          => ticker'.timers = 1 /\ ticker'.running = 0]_vars

\* the task is marked: done, or carrying the text of the failure
Recorded(ts, task) ==
  /\ task.id \in DOMAIN ts.all
  /\ ts.all[task.id].state = "success" \/ ts.all[task.id].error # NoError

PerformEnded == last.op = "perform" /\ last.out # "await"

\* C18: perform(config) with GPU layers requested (gpuLayers non-zero) and an
\* empty GPU enumeration fails with 'no gpu was found.', and on that path
\* neither pullImage nor createContainer is ever invoked: a call that asked for
\* GPU layers reaches the pull only with the first GPU of a non-empty
\* enumeration, and the perform that ends after an empty enumeration ends
\* rejected having called collectGPUs only.
C18_NoGpuFailsBeforePullAndCreate ==
  /\ (inference.pc \in {"pullImage", "createContainer"}
      /\ GpuRequested(inference.config))
       => Len(inference.collected[1]) > 0 /\ inference.gpu = inference.collected[1][1]
  /\ (PerformEnded /\ GpuRequested(last.arg.config) /\ last.arg.collected = << <<>> >>)
       => /\ last.out = "no gpu was found."
          /\ last.calls = <<"collectGPUs">>

\* a perform() that asked for GPU layers on a host without a GPU has ended
C18_Witness ==
  /\ PerformEnded
  /\ GpuRequested(last.arg.config)
  /\ last.arg.collected = << <<>> >>
  /\ last.out = "no gpu was found."

\* the configuration supplies exactly one model, and that model has a file
OneModelWithFile(config) ==
  /\ Len(config.modelsInfo) = 1
  /\ config.modelsInfo[1].file # NoFile

\* the messages of the errors getContainerCreateOptions throws
ConfigurationErrors ==
  { "Need at least one model info to start an inference server.",
    "Currently the inference server does not support multiple models serving.",
    "The model info file provided is undefined" }

\* C19: getContainerCreateOptions fails, producing no container specification,
\* exactly when the configuration supplies zero models, more than one model,
\* or one model whose file is undefined, and returns a specification for a
\* configuration with exactly one model that has a file; through perform, no
\* container is created for a rejected configuration. (imageInfo is set once
\* pullImage has resolved, which is when getContainerCreateOptions is called.)
C19_OptionsFailExactlyForBadConfig ==
  /\ inference.pc = "createContainer"
       => /\ OneModelWithFile(inference.config)
          /\ inference.options # NoOptions
          /\ inference.options.Image = inference.imageInfo.Id
  /\ (PerformEnded /\ last.arg.imageInfo # NoImageInfo)
       => IF OneModelWithFile(last.arg.config)
            THEN /\ last.arg.options # NoOptions
                 /\ last.out \notin ConfigurationErrors
                 /\ last.calls[Len(last.calls)] = "createContainer"
            ELSE /\ last.arg.options = NoOptions
                 /\ last.out \in ConfigurationErrors
                 /\ \A k \in DOMAIN last.calls : last.calls[k] # "createContainer"
  /\ (PerformEnded /\ last.out \in ConfigurationErrors)
       => ~OneModelWithFile(last.arg.config)

\* a perform() whose configuration supplies two models was rejected after the
\* image was pulled
C19_Witness ==
  /\ PerformEnded
  /\ last.arg.imageInfo # NoImageInfo
  /\ Len(last.arg.config.modelsInfo) > 1
  /\ last.out = "Currently the inference server does not support multiple models serving."

\* the GPU consequences a container specification carries
GpuConsequences(options) ==
  LET host == options.HostConfig
  IN (IF \E k \in DOMAIN host.Mounts :
            host.Mounts[k].Target = "/usr/lib/wsl" /\ host.Mounts[k].Type = "bind"
        THEN {"driver mount"} ELSE {})
     \cup (IF host.DeviceRequests # <<>> THEN {"device request"} ELSE {})
     \cup (IF host.Devices # <<>> THEN {"device node"} ELSE {})
     \cup (IF options.Entrypoint # Undefined \/ options.Cmd # <<>>
             THEN {"shell entrypoint"} ELSE {})
     \cup (IF options.User # Undefined THEN {"user"} ELSE {})

AllGpuConsequences ==
  {"driver mount", "device request", "device node", "shell entrypoint", "user"}

\* the consequences have the values of the GPU branch
GpuConsequencesAsWritten(options) ==
  /\ options.HostConfig.DeviceRequests[1].Capabilities = << <<"gpu">> >>
  /\ options.HostConfig.Devices[1].PathOnHost = "/dev/dxg"
  /\ options.Entrypoint = "/usr/bin/sh"
  /\ Len(options.Cmd) = 2 /\ options.Cmd[1] = "-c"
  /\ options.User = "0"

\* the specification is built with or without a GPU as the consequences say
BuiltForGpu(options, gpu) ==
  IF gpu # NoGPU
    THEN GpuConsequences(options) = AllGpuConsequences /\ GpuConsequencesAsWritten(options)
    ELSE GpuConsequences(options) = {}

\* C20: in the container specification built by getContainerCreateOptions the
\* five GPU consequences (host driver directory bind mount, GPU device
\* request, exposed host device node, entrypoint override to a shell running
\* the symlink-then-launch command, user root) are all present when a GPU is
\* supplied and all absent when it is not; no specification contains a proper
\* non-empty subset of them.
C20_GpuConsequencesAllOrNone ==
  /\ inference.options # NoOptions
       => BuiltForGpu(inference.options, inference.gpu)
  /\ (PerformEnded /\ last.arg.options # NoOptions)
       => BuiltForGpu(last.arg.options, last.arg.gpu)

\* a specification was built for a GPU, and the container is being created
C20_Witness ==
  /\ inference.pc = "createContainer"
  /\ inference.gpu # NoGPU
  /\ GpuConsequences(inference.options) = AllGpuConsequences

\* the identity a container's labels give it
ContainerIdentity(container) ==
  [hasModelId |-> container.hasModelId, modelId |-> container.modelId,
   hasPort |-> container.hasPort, portLabel |-> container.portLabel]

\* C21: identity labels round-trip and are write-once: a pod created by createPod
\* for (recipe, model) carries ai-lab-recipe-id = recipe.id and ai-lab-model-id =
\* model.id, adoptPod applied to that pod registers exactly the key {recipeId:
\* recipe.id, modelId: model.id}, every entry that enters the registry is keyed
\* by its pod's identity labels, and no step changes the labels of an existing
\* pod or container.
C21_IdentityLabelsRoundTrip ==
  [][ /\ \A p \in DOMAIN pods' \ DOMAIN pods :
           \E i \in OpIds :
             /\ ops[i].pc = "createPod"
             /\ Label(pods'[p].Labels, LABEL_RECIPE_ID) = ops[i].r
             /\ Label(pods'[p].Labels, LABEL_MODEL_ID) = ops[i].m
             /\ DOMAIN AdoptPod(<<>>, pods'[p]) = {AppKey(ops[i].r, ops[i].m)}
             /\ AdoptPod(<<>>, pods'[p])[AppKey(ops[i].r, ops[i].m)].pod = pods'[p]
      /\ \A k \in DOMAIN applications' \ DOMAIN applications :
           /\ k = PodKey(applications'[k].pod)
           /\ k = AppKey(applications'[k].recipeId, applications'[k].modelId)
      /\ \A p \in DOMAIN pods \cap DOMAIN pods' : pods'[p].Labels = pods[p].Labels
      /\ \A c \in DOMAIN containers \cap DOMAIN containers' :
           ContainerIdentity(containers'[c]) = ContainerIdentity(containers[c])
    ]_vars

\* the pod a pull created is registered under the key it was pulled for
C21_Witness ==
  /\ last.op = "pull" /\ last.out = "resolved"
  /\ last.arg.key \in DOMAIN applications
  /\ applications[last.arg.key].pod.Id = last.arg.pod
  /\ last.arg.pod \in DOMAIN pods
  /\ PodKey(pods[last.arg.pod]) = last.arg.key

\* the pods of the engine that bear the identity labels of a key
PodsOf(ps, key) == {p \in DOMAIN ps : PodKey(ps[p]) = key}

\* C22: removeApplication first stops the pod and then deletes it, and
\* restartApplication captures the existing pod's model, removes that pod and runs
\* the provisioning pipeline, in that order; the replacement pod is created only
\* after the old pod has been removed from the engine (no pod of the key exists
\* when a restart's createPod adds one), so when restartApplication resolves the
\* engine holds exactly one pod for the key.
C22_RestartReplacesThePod ==
  [][ /\ \A i \in OpIds :
           (ops[i].kind = "restart" /\ ops[i].pc = "createPod" /\ DOMAIN pods' # DOMAIN pods)
             => PodsOf(pods, AppKey(ops[i].r, ops[i].m)) = {}
      /\ \A i \in OpIds :
           (ops[i].kind = "restart" /\ ops[i].pc = "stopPod")
             => ops'[i].pc \notin {"removePod", "removePodDone"}
      /\ (last'.op = "restart" /\ last'.out = "resolved")
           => Cardinality(PodsOf(pods', last'.arg.key)) = 1
    ]_vars

\* the keys the pods left behind can bear
LeftKeys == {AppKey("r1", "m1"), AppKey("r1", "m2")}

\* the registry holds an entry for the key whose pod is not in the engine
Orphaned(key) ==
  /\ key \in DOMAIN applications
  /\ applications[key].pod.Id \notin DOMAIN pods

Startable == {"none", "stopped", "error", "untracked"}

\* the transitions of the playground state machine
Transition(from, to) ==
  \/ to = "starting" /\ from \in Startable
  \/ to = "running" /\ from = "starting"
  \/ to = "stopping" /\ from = "running"
  \/ to = "stopped" /\ from = "stopping"
  \/ to = "error" /\ from \in {"starting", "stopping"}

\* C24: every change of a playground's status follows the state machine: starting
\* is entered only from none, stopped, error or an untracked model; running only
\* from starting; stopping only from running; stopped only from stopping; error
\* only from starting or stopping (a start that finds no engine passes through
\* starting within one call); and none is entered only through a lifecycle event
\* of the playground's container.
C24_StatusFollowsStateMachine ==
  [][\A m \in ModelIds :
       StatusOf(m)' # StatusOf(m) =>
         \/ Transition(StatusOf(m), StatusOf(m)')
         \/ /\ StatusOf(m)' = "error"
            /\ StatusOf(m) \in Startable
            /\ last' = Call("startPlayground", m,
                            "Unable to find an engine to start playground", {})
         \/ /\ StatusOf(m)' = "none"
            /\ \E c \in DOMAIN events :
                 /\ events[c] # <<>>
                 /\ Head(events[c]) \in LifecycleEnds
                 /\ [cid |-> c, modelId |-> m] \in subs
    ]_vars

\* the engine has just delivered the oldest undelivered event of container c
Delivered(c) ==
  /\ c \in DOMAIN events
  /\ events[c] # <<>>
  /\ Len(events'[c]) < Len(events[c])

\* C25: every running container created by startPlayground has a subscription;
\* when such a container's remove, die or cleanup event is delivered, the model's
\* playground state becomes {status none, no container descriptor} and the
\* subscription is disposed; a state is demoted to none only by a subscription
\* that is disposed in the same step and subscriptions are made for new
\* containers only, so one container demotes the state at most once.
C25_LifecycleEventDemotesOnce ==
  [][ /\ \A c \in DOMAIN containers' :
           (~containers'[c].external /\ containers'[c].State = "running")
             => [cid |-> c, modelId |-> containers'[c].modelId] \in subs'
      /\ \A s \in subs :
           (Delivered(s.cid) /\ Head(events[s.cid]) \in LifecycleEnds)
             => /\ s.modelId \in DOMAIN playgrounds'
                /\ playgrounds'[s.modelId] = NoneState(s.modelId)
                /\ s \notin subs'
      /\ \A m \in ModelIds :
           (StatusOf(m)' = "none" /\ StatusOf(m) # "none")
             => \E s \in subs \ subs' : s.modelId = m /\ Delivered(s.cid)
      /\ \A s \in subs' \ subs : s.cid \notin DOMAIN containers
    ]_vars

\* the container a start created has gone and its event has demoted the model
C25_Witness ==
  \E c \in DOMAIN containers :
    /\ ~containers[c].external
    /\ containers[c].State = "removed"
    /\ \A s \in subs : s.cid # c
    /\ containers[c].modelId \in DOMAIN playgrounds
    /\ playgrounds[containers[c].modelId] = NoneState(containers[c].modelId)

\* the ids handed out so far: those of the calls in flight and of the sessions
IdsInUse == {asks[k].id : k \in 1..Len(asks)} \cup DOMAIN queries

\* C26: the id of every askPlayground call is the counter's new value, greater
\* than every id handed out before; every session is stored under its own id;
\* a session enters the set with no chunk in it and is announced in that step,
\* and a call still awaiting completions.create has no session yet.
C26_QueryIdsIncreaseAndSessionsPrecedeChunks ==
  [][ /\ \A k \in DOMAIN queries' : queries'[k].id = k
      /\ \A id \in IdsInUse' : id <= queryIdCounter'
      /\ queryIdCounter' >= queryIdCounter
      /\ Len(asks') > Len(asks) =>
           /\ asks'[Len(asks')].id = queryIdCounter'
           /\ \A id \in IdsInUse : id < asks'[Len(asks')].id
           /\ queryIdCounter < asks'[Len(asks')].id
      /\ \A j, k \in 1..Len(asks') : j < k => asks'[j].id < asks'[k].id
      /\ \A k \in 1..Len(asks') :
           asks'[k].pc = "create" => asks'[k].id \notin DOMAIN queries'
      /\ \A k \in DOMAIN queries' \ DOMAIN queries :
           /\ queries'[k].response = NoResponse
           /\ "sendQueriesState" \in last'.calls
    ]_vars

\* two sessions are stored and the first has received a chunk while the second
\* has none yet
C26_Witness ==
  /\ DOMAIN queries = {1, 2}
  /\ queries[1].response # NoResponse
  /\ queries[2].response = NoResponse

\* the chunks 1..n of a stream, in arrival order
Arrived(n) == [j \in 1..n |-> j]

\* C27: no step removes a key from the playground map or a session from the
\* query set, and a session's response changes only by one chunk being appended
\* after those it holds, the chunks being those of its stream in arrival order.
C27_TrackedCollectionsOnlyGrow ==
  [][ /\ DOMAIN playgrounds \subseteq DOMAIN playgrounds'
      /\ DOMAIN queries \subseteq DOMAIN queries'
      /\ \A k \in DOMAIN queries :
           /\ queries'[k].id = queries[k].id
           /\ queries'[k].modelId = queries[k].modelId
           /\ queries'[k].prompt = queries[k].prompt
           /\ \/ queries'[k].response = queries[k].response
              \/ /\ Len(queries'[k].response) = Len(queries[k].response) + 1
                 /\ SubSeq(queries'[k].response, 1, Len(queries[k].response)) = queries[k].response
           /\ queries'[k].response = Arrived(Len(queries'[k].response))
    ]_vars

\* a session holds every chunk of its stream while its playground, demoted to
\* none by its container's event, is still a key of the map
C27_Witness ==
  \E k \in DOMAIN queries :
    /\ Len(queries[k].response) = MaxChunks
    /\ queries[k].modelId \in DOMAIN playgrounds
    /\ playgrounds[queries[k].modelId] = NoneState(queries[k].modelId)

\* the ids of the calls whose stream or completions.create is still pending
PendingIds == {asks[k].id : k \in 1..Len(asks)}

\* C28: when the stream of a query ends or fails after k chunks, the session
\* stays in the query set with exactly those k chunks, neither the playgrounds
\* nor the id counter change, so the calls accepted before are accepted after;
\* a session whose stream is over never changes again.
C28_StreamFailureKeepsTheSession ==
  [][ /\ \A k \in 1..Len(asks) :
           (asks[k].pc = "stream" /\ asks' = RemoveAt(asks, k))
             => /\ queries' = queries
                /\ asks[k].id \in DOMAIN queries
                /\ queries[asks[k].id].response = Arrived(asks[k].chunks)
                /\ playgrounds' = playgrounds
                /\ queryIdCounter' = queryIdCounter
                /\ containers' = containers
      /\ \A id \in DOMAIN queries \ PendingIds :
           id \in DOMAIN queries' /\ queries'[id] = queries[id]
    ]_vars

\* the stream of session 1 is over after one chunk of two, and the call made
\* after that has just been accepted
C28_Witness ==
  /\ 1 \in DOMAIN queries
  /\ 1 \notin PendingIds
  /\ Len(queries[1].response) = 1
  /\ MaxChunks > 1
  /\ 2 \in PendingIds
  /\ last.op = "askPlayground"
  /\ last.out = "await"

\* the step is the settlement of an await of the given pass of checkPodsHealth,
\* and it left the registry as the claim allows: same keys, and no entry changed
\* but that of the awaited pod, in its health and pod descriptor only
PassKeepsKeys(pass) ==
  /\ DOMAIN applications' = DOMAIN applications
  /\ \A key \in DOMAIN applications :
       applications'[key] # applications[key]
         => /\ pass.pc = "getHealth"
            /\ key = PodKey(pass.snapshot[pass.idx])
            /\ applications'[key].pod = pass.snapshot[pass.idx]
            /\ [applications'[key] EXCEPT !.health = applications[key].health,
                                          !.pod = applications[key].pod] = applications[key]

\* C29: a step of a health-polling pass, the recurring one or the one an
\* operation runs, leaves the set of registered keys as it was and changes at
\* most the health and the pod descriptor of the entry of the pod it awaited,
\* also when the key of that pod was forgotten during the await.
C29_HealthPassKeepsTheKeys ==
  [][ /\ (ticker.pc = "running" /\ ticker'.pass # ticker.pass) => PassKeepsKeys(ticker.pass)
      /\ \A i \in OpIds :
           (ops[i].pc = "checkPodsHealth" /\ ops'[i] # ops[i]) => PassKeepsKeys(ops[i].pass)
    ]_vars

\* a pass has just ended on the entry of a pod whose key was forgotten while it
\* awaited the pod's health, and the key is still unregistered
C29_Witness ==
  /\ last.op = "checkPodsHealth"
  /\ last.out = "threw"
  /\ \E p \in DOMAIN pods : PodKey(pods[p]) \notin DOMAIN applications

\* the step in which the listing of adoptRunningPlaygrounds settled
PlaygroundAdoptionSettles ==
  adoption.playgrounds = "listing" /\ adoption'.playgrounds = "done"

\* the step in which the pods listed at startup are handed to adoptPod
AppAdoptionSettles == adoption.apps = "listing" /\ adoption'.apps = "done"

\* C30: adoption leaves the state of every key tracked before as it was; a
\* playground it adds is the running state of a container that is running,
\* carries both labels and has a port label that parses; when the listing
\* succeeded every such container has its model tracked afterwards, whatever
\* the labels of the containers listed before it, and adopting again over the
\* same containers, or the same pods, changes nothing.
C30_AdoptionIsIdempotentAndKeepsTrackedKeys ==
  [][ /\ PlaygroundAdoptionSettles =>
           /\ \A m \in DOMAIN playgrounds :
                m \in DOMAIN playgrounds' /\ playgrounds'[m] = playgrounds[m]
           /\ \A m \in DOMAIN playgrounds' \ DOMAIN playgrounds :
                \E c \in Adoptable :
                  /\ containers[c].modelId = m
                  /\ playgrounds'[m] = RunningState(m, c, ParseInt(containers[c].portLabel))
           /\ last'.out = "returned" =>
                /\ \A c \in Adoptable : containers[c].modelId \in DOMAIN playgrounds'
                /\ AdoptContainers(playgrounds', containers, 1) = playgrounds'
      /\ AppAdoptionSettles =>
           /\ \A key \in DOMAIN applications :
                key \in DOMAIN applications' /\ applications'[key] = applications[key]
           /\ AdoptAll(applications', PodsWithLabels({LABEL_RECIPE_ID})) = applications'
      /\ \A p \in PodIds :
           [type |-> "start", podId |-> p] \in podEvents \ podEvents' =>
             /\ \A key \in DOMAIN applications :
                  key \in DOMAIN applications' /\ applications'[key] = applications[key]
             /\ p \in DOMAIN pods => AdoptPod(applications', pods[p]) = applications'
    ]_vars

\* the adoption has just run over a container of m2 whose port label does not
\* parse, listed first, and a running container of m1: m1 is adopted from the
\* second container and m2, which a start had begun to track, is as it was
C30_Witness ==
  /\ last = Call("adoptPlaygrounds", "", "returned", {})
  /\ 1 \in DOMAIN containers
  /\ containers[1].modelId = "m2"
  /\ containers[1].hasPort
  /\ ParseInt(containers[1].portLabel) = NaN
  /\ DOMAIN playgrounds = {"m1", "m2"}
  /\ playgrounds["m1"] = RunningState("m1", 2, 80)
  /\ playgrounds["m2"].status = "starting"

\* the startPlayground invocations of model m between their state check and
\* their return or throw
StartsInFlight(m) ==
  {i \in StartIds : starts[i].modelId = m /\ starts[i].pc \notin {"idle", "threw", "returned"}}

\* C31: for each model at most one startPlayground invocation is between its
\* state check and its return at any time.
C31_OneStartPerModel ==
  \A m \in ModelIds : Cardinality(StartsInFlight(m)) <= 1

\* the containers of the startPlayground invocations of model m that returned
StartedContainers(m) == {starts[i].cid : i \in {j \in StartIds : starts[j].modelId = m /\ starts[j].pc = "returned"}}

\* the container of the latest successful start of model m
LatestStarted(m) == CHOOSE c \in StartedContainers(m) : \A d \in StartedContainers(m) : d <= c

\* C32: a playground is never reported none or stopped while the container of
\* its latest successful start is running.
C32_NoStaleCallbackClobbersAStart ==
  \A m \in ModelIds :
    (StartedContainers(m) # {} /\ containers[LatestStarted(m)].State = "running")
      => StatusOf(m) \notin {"none", "stopped"}

\* C33: after dispose() has returned the recurring timer starts no further
\* health check, also when dispose is called while a check started by the timer
\* is in flight.
C33_NoHealthCheckAfterDispose ==
  [][ticker.disposed => ticker'.ticks = ticker.ticks]_vars

\* an orchestrator-initiated removal of pod p is pending: removePod is awaited,
\* or the remove event it caused has not been handled yet
RemovalPending(p) ==
  \/ \E i \in OpIds : ops[i].pc \in {"removePod", "removePodDone"} /\ ops[i].appPod.Id = p
  \/ [type |-> "remove", podId |-> p] \in podEvents

\* C34: a pod id is in protectTasks only while an orchestrator-initiated removal
\* of that pod is pending.
C34_ProtectSetDoesNotLeak ==
  \A p \in protectTasks : RemovalPending(p)

\* C35: a playground state holds a container descriptor only while its status
\* is running or stopping.
C35_DescriptorOnlyWhileRunningOrStopping ==
  \A m \in DOMAIN playgrounds :
    playgrounds[m].container # NoContainer => playgrounds[m].status \in {"running", "stopping"}

\* the engine call task t follows has not settled: its operation awaits it
EngineCallPending(t) ==
  \E i \in OpIds : ops[i].task.id = t /\ ops[i].pc \in {"stopPod", "removePod", "removePodDone"}

\* the 'Stopping AI App' / 'Removing AI App' tasks still in state loading
LoadingStopTasks(ts) ==
  {t \in DOMAIN ts.all : /\ ts.all[t].name \in {"Stopping AI App", "Removing AI App"}
                         /\ ts.all[t].state = "loading"}

RunningOnDeadContainer(m) ==
  /\ StatusOf(m) = "running"
  /\ playgrounds[m].container # NoContainer
  /\ playgrounds[m].container.containerId \in DOMAIN containers
  /\ containers[playgrounds[m].container.containerId].State # "running"

\* C37: a playground tracked as running, started or adopted, is eventually
\* demoted to none after its container has died or was removed.
C37_DeadContainerDemotesThePlayground ==
  \A m \in ModelIds : RunningOnDeadContainer(m) ~> (StatusOf(m) = "none")

====
